---- MODULE Spec2Model ----
(***************************************************************************)
(* TardeBot: run() and the trading cycle of TradingBot and AlfaTradingBot, *)
(* the operations of the broker client (AlfaBroker) and its request layer. *)
(*                                                                         *)
(* Numbers.  Prices and balances are whole currency units; on whole        *)
(* numbers of the sizes used here Python's float arithmetic               *)
(* int(balance * size / price) and (predicted - current) / current versus *)
(* 0.02 agree with the exact integer arithmetic written below.            *)
(* max_position_size is kept in tenths (0.1 is 1, 1.5 is 15) and the       *)
(* 0.02 threshold in hundredths.                                           *)
(* Timestamps of trades are wall-clock values and are left out of Trade.   *)
(***************************************************************************)
EXTENDS Integers, Sequences, FiniteSets, TLC

VARIABLES
    bot,                \* which class main() constructed
    max_position_size,  \* self.max_position_size, in tenths
    balance,            \* TradingBot.balance / AlfaTradingBot.initial_balance
    positions,          \* self.positions: dict ticker -> quantity
    trade_history,      \* self.trade_history: list of trades
    instruments_cache,  \* AlfaBroker.instruments_cache: dict ticker -> instrument
    cycle,              \* what the latest _trading_cycle read, decided and sent
    confirmed,          \* number of order confirmations the broker client returned
    broker_held,        \* shares of the symbol on the broker account, when the
                        \* account is traded by this bot alone; None otherwise
    calls,              \* the calls the latest step made, in order: broker
                        \* endpoints requested, data provider and predictor
                        \* methods; for a trading cycle up to its decision
    inputs,             \* which of its inputs the latest cycle asked for and
                        \* whether it got them; after _train_model of
                        \* AlfaTradingBot, the historical data it held
    op,                 \* the latest call of an AlfaBroker operation: its
                        \* arguments, what the broker answered, what it returned
    is_running,         \* self.is_running
    is_trained,         \* PricePredictor.is_trained
    run,                \* where run() stands: NotStarted, TrainingModel,
                        \* Running (inside the loop), Stopped, Returned
    pause,              \* seconds of the latest time.sleep of run()'s loop
    sigint,             \* where a KeyboardInterrupt is about to reach the
                        \* thread inside a cycle: "order" (as buy_market or
                        \* sell_market returns to the signal), or "none"
    final_stats,        \* what the calls of _print_final_stats logged
    exit_code,          \* the exit code of the process; None while main() runs
    environ,            \* os.environ after load_dotenv(): what Config reads
    config,             \* Config._config
    model,              \* PricePredictor.model: "None", "unfitted", "fitted"
    succeeded,          \* whether a call of train_model has returned True
    rq,                 \* the _make_request call in progress
    http_log,           \* the HTTP requests issued for it, in order
    answers,            \* the outcomes the broker gave to them, in order
    sleeps              \* seconds slept in time.sleep(1) by it

vars == <<bot, max_position_size, balance, positions, trade_history,
          instruments_cache, cycle, confirmed, broker_held,
          calls, inputs, op, is_running, is_trained, run, pause,
          sigint, final_stats, exit_code, environ, config, model, succeeded,
          rq, http_log, answers, sleeps>>

botVars == <<bot, max_position_size, balance, positions, trade_history,
             instruments_cache, cycle, confirmed, broker_held,
             calls, inputs, op, is_running, is_trained, run, pause,
             sigint, final_stats, exit_code, environ, config, model,
             succeeded>>

\* what a trading cycle reads and writes
tradeVars == <<bot, max_position_size, balance, positions, trade_history,
               cycle, confirmed, broker_held, inputs>>

\* what run() keeps outside the cycle
runVars == <<is_running, is_trained, run>>

\* the interruption, the final report and the end of the process
procVars == <<sigint, final_stats, exit_code>>

\* the configuration and the predictor's model
unitVars == <<environ, config, model, succeeded>>

reqVars == <<rq, http_log, answers, sleeps>>

(***************************************************************************)
(* Bounds of the model.                                                    *)
(***************************************************************************)
\* trades a run of the model records before cycles stop being taken
MaxTrades == 3
\* rate-limited answers the broker gives to one request before another answer
MaxRateLimited == 3
\* the nested calls of _make_request the interpreter allows before it raises
\* RecursionError (sys.getrecursionlimit() is 1000 in CPython), scaled down
RecursionLimit == 4

(***************************************************************************)
(* Python values.                                                          *)
(***************************************************************************)
\* Optional[T]: None is the empty sequence, a value v is <<v>>
None == <<>>
Some(v) == <<v>>
Val(o) == o[1]
OptionalOf(S) == {None} \cup {Some(v) : v \in S}

\* {}
EmptyDict == [x \in {} |-> 0]

\* dict.get(k, default)
Get(d, k, default) == IF k \in DOMAIN d THEN d[k] ELSE default

\* d[k] = v
Put(d, k, v) == [x \in (DOMAIN d) \cup {k} |-> IF x = k THEN v ELSE d[x]]

\* abs(n)
Abs(n) == IF n < 0 THEN -n ELSE n

\* int(a / b) for b > 0: Python's int() truncates towards zero
IntDiv(a, b) == IF a >= 0 THEN a \div b ELSE -((-a) \div b)

(***************************************************************************)
(* Configuration and inputs.                                               *)
(***************************************************************************)
\* config.get('DEFAULT_SYMBOL')
symbol == "SBER"

\* self.prediction_threshold = 0.02, in hundredths
prediction_threshold == 2

\* os.environ, as far as Config reads it here: for each variable the text
\* it is set to, or None where it is not set
Environ(default_symbol, initial_balance, position_size, use_alfa_broker) ==
    [DEFAULT_SYMBOL |-> default_symbol, INITIAL_BALANCE |-> initial_balance,
     MAX_POSITION_SIZE |-> position_size,
     USE_ALFA_BROKER |-> use_alfa_broker]

\* no variable is set, in the environment or in a .env file
NoOverrides == Environ(None, None, None, None)

\* os.getenv(name, default)
Getenv(env, name, default) ==
    IF env[name] = None THEN default ELSE Val(env[name])

\* float(text), for the amounts written here
Float(text) ==
    CASE text = "0" -> 0
      [] text = "500" -> 500
      [] text = "10000" -> 10000
      [] text = "100000" -> 100000

\* float(text) of a position size, in tenths
FloatTenths(text) ==
    CASE text = "0.1" -> 1
      [] text = "1.5" -> 15

\* text.lower()
Lower(text) ==
    CASE text = "True" -> "true"
      [] text = "FALSE" -> "false"
      [] OTHER -> text

\* Config._load_default_config: the settings the bots read
LoadDefaultConfig(env) ==
    [DEFAULT_SYMBOL |-> Getenv(env, "DEFAULT_SYMBOL", "SBER"),
     INITIAL_BALANCE |-> Float(Getenv(env, "INITIAL_BALANCE", "100000")),
     MAX_POSITION_SIZE |->
         FloatTenths(Getenv(env, "MAX_POSITION_SIZE", "0.1")),
     USE_ALFA_BROKER |->
         Lower(Getenv(env, "USE_ALFA_BROKER", "true")) = "true"]

\* Config.get(key): the value, or the default None
ConfigGet(cfg, key) == IF key \in DOMAIN cfg THEN Some(cfg[key]) ELSE None

\* the environments main() is run in here: TradingBot with the
\* INITIAL_BALANCE and MAX_POSITION_SIZE the environment sets, and
\* AlfaTradingBot, which never reads its initial_balance, with no variable
\* set
RunEnvironments ==
    {Environ(None, Some(b), m, Some("false")) :
        b \in {"0", "500", "10000"}, m \in {None, Some("1.5")}} \cup
    {NoOverrides}

\* main(): Config(), and the bot chosen by USE_ALFA_BROKER, as its
\* constructor reads the configuration
Main(env) ==
    /\ environ = env
    /\ config = LoadDefaultConfig(env)
    /\ bot = IF LoadDefaultConfig(env).USE_ALFA_BROKER THEN "AlfaTradingBot"
             ELSE "TradingBot"
    /\ max_position_size = LoadDefaultConfig(env).MAX_POSITION_SIZE
    /\ balance = LoadDefaultConfig(env).INITIAL_BALANCE

\* prices the data source reports and the predictor returns
CurrentPrices == {90, 100}
PredictedPrices == {80, 101, 102, 103}

\* what get_historical_data hands the bot
HistoricalData == {"None", "empty", "bars"}

\* PredictPrice that does not ask whether the model was trained
PredictPriceUntrained(trained, fit, data, outcome) ==
    IF data # "bars" THEN None ELSE outcome

\* PricePredictor.predict_price(data): None while is_trained is False or
\* there is no model, None when prepare_features yields nothing, None when
\* the model's predict raises (a model that was never fitted, or outcome
\* None), otherwise the price predicted
PredictPrice(trained, fit, data, outcome) ==
    IF ~trained \/ fit = "None" THEN None
    ELSE IF data # "bars" THEN None
    ELSE IF fit # "fitted" THEN None
    ELSE outcome

\* what predict_price may return to a cycle that has recent bars
Predictions ==
    {PredictPrice(is_trained, model, "bars", outcome) :
        outcome \in OptionalOf(PredictedPrices)}

NoCycle ==
    [branch |-> "NONE", cur |-> None, pred |-> None, order |-> None,
     result |-> "none", pos_read |-> None, bal_read |-> None]

\* a cycle that returned before _make_trading_decision
Skipped == [NoCycle EXCEPT !.branch = "SKIP"]

\* what a cycle got when it asked for its inputs: each is "unasked", "None",
\* "value" (for data also "empty" and "bars"), and the current price
\* "raised" when asking for it ended in an exception
Inputs(current_price, previous_price, recent, predicted) ==
    [current_price |-> current_price, previous_price |-> previous_price,
     recent |-> recent, predicted |-> predicted]

NoInputs == Inputs("unasked", "unasked", "unasked", "unasked")

\* None or a value
Got(o) == IF o = None THEN "None" ELSE "value"

(***************************************************************************)
(* The decision rule shared by TradingBot and AlfaTradingBot.              *)
(***************************************************************************)
\* BuyDecision without the threshold: any predicted rise is a BUY signal
BuyDecisionAnyRise(current_price, predicted_price) ==
    predicted_price - current_price > 0

\* price_change_percent > self.prediction_threshold
BuyDecision(current_price, predicted_price) ==
    (predicted_price - current_price) * 100 > prediction_threshold * current_price

\* price_change_percent < -self.prediction_threshold
SellDecision(current_price, predicted_price) ==
    (predicted_price - current_price) * 100 < -(prediction_threshold * current_price)

\* expected_change, kept as the fraction it is computed from
ExpectedChange(current_price, predicted_price) ==
    [num |-> predicted_price - current_price, den |-> current_price]

\* quantity = int(balance * max_position_size / current_price)
Quantity(bal, current_price) ==
    IntDiv(bal * max_position_size, 10 * current_price)

\* the trade dict of TradingBot; amount is its 'cost' or 'revenue'
SimTrade(action, quantity, price, amount, expected_change) ==
    [action |-> action, symbol |-> symbol, quantity |-> quantity,
     price |-> price, amount |-> amount, expected_change |-> expected_change]

\* the order a cycle placed, as the cycle record keeps it
Order(direction, quantity, figi) ==
    [direction |-> direction, quantity |-> quantity, figi |-> figi]

(***************************************************************************)
(* TradingBot (local simulation).                                          *)
(***************************************************************************)
\* SimCanBuy without the comparison against the balance
SimCanBuyUnchecked(quantity, current_price) == quantity > 0

\* the guard of the purchase in TradingBot._buy_signal
SimCanBuy(quantity, current_price) ==
    quantity > 0 /\ balance >= quantity * current_price

SimBuySignal(current_price, predicted_price) ==
    LET held == Get(positions, symbol, 0)
        quantity == Quantity(balance, current_price)
        cost == quantity * current_price
        seen == [Skipped EXCEPT !.branch = "BUY", !.cur = Some(current_price),
                     !.pred = Some(predicted_price), !.pos_read = Some(held),
                     !.bal_read = Some(balance)]
    IN  IF symbol \in DOMAIN positions /\ positions[symbol] > 0
        THEN /\ cycle' = seen
             /\ UNCHANGED <<balance, positions, trade_history>>
        ELSE IF SimCanBuy(quantity, current_price)
        THEN /\ balance' = balance - cost
             /\ positions' = Put(positions, symbol, held + quantity)
             /\ trade_history' = Append(trade_history,
                    SimTrade("BUY", quantity, current_price, cost,
                             ExpectedChange(current_price, predicted_price)))
             /\ cycle' = [seen EXCEPT
                    !.order = Some(Order("BUY", quantity, "")),
                    !.result = "confirmed"]
        ELSE /\ cycle' = seen
             /\ UNCHANGED <<balance, positions, trade_history>>

\* SimSellSignal that credits the sale at the predicted price
SimSellSignalAtPrediction(current_price, predicted_price) ==
    LET seen == [Skipped EXCEPT !.branch = "SELL", !.cur = Some(current_price),
                     !.pred = Some(predicted_price),
                     !.pos_read = Some(Get(positions, symbol, 0)),
                     !.bal_read = Some(balance)]
    IN  IF symbol \notin DOMAIN positions \/ positions[symbol] <= 0
        THEN /\ cycle' = seen
             /\ UNCHANGED <<balance, positions, trade_history>>
        ELSE LET quantity == positions[symbol]
                 revenue == quantity * predicted_price
             IN  /\ balance' = balance + revenue
                 /\ positions' = Put(positions, symbol, 0)
                 /\ trade_history' = Append(trade_history,
                        SimTrade("SELL", quantity, current_price, revenue,
                                 ExpectedChange(current_price, predicted_price)))
                 /\ cycle' = [seen EXCEPT
                        !.order = Some(Order("SELL", quantity, "")),
                        !.result = "confirmed"]

\* TradingBot._sell_signal: the whole position is sold at the current price
SimSellSignal(current_price, predicted_price) ==
    LET seen == [Skipped EXCEPT !.branch = "SELL", !.cur = Some(current_price),
                     !.pred = Some(predicted_price),
                     !.pos_read = Some(Get(positions, symbol, 0)),
                     !.bal_read = Some(balance)]
    IN  IF symbol \notin DOMAIN positions \/ positions[symbol] <= 0
        THEN /\ cycle' = seen
             /\ UNCHANGED <<balance, positions, trade_history>>
        ELSE LET quantity == positions[symbol]
                 revenue == quantity * current_price
             IN  /\ balance' = balance + revenue
                 /\ positions' = Put(positions, symbol, 0)
                 /\ trade_history' = Append(trade_history,
                        SimTrade("SELL", quantity, current_price, revenue,
                                 ExpectedChange(current_price, predicted_price)))
                 /\ cycle' = [seen EXCEPT
                        !.order = Some(Order("SELL", quantity, "")),
                        !.result = "confirmed"]

SimMakeTradingDecision(current_price, predicted_price) ==
    IF BuyDecision(current_price, predicted_price)
    THEN SimBuySignal(current_price, predicted_price)
    ELSE IF SellDecision(current_price, predicted_price)
    THEN SimSellSignal(current_price, predicted_price)
    ELSE /\ cycle' = [Skipped EXCEPT !.branch = "HOLD",
                          !.cur = Some(current_price),
                          !.pred = Some(predicted_price)]
         /\ UNCHANGED <<balance, positions, trade_history>>

\* the calls of a cycle, as calls lists them
SimPriceCalls ==
    <<"data_provider.get_current_price", "data_provider.get_previous_price">>
SimDataCall == <<"data_provider.get_historical_data">>
PredictCall == <<"predictor.predict_price">>
DecisionCall == <<"_make_trading_decision">>

\* TradingBot._trading_cycle: prices, recent data, prediction, decision
SimTradingCycle ==
    /\ bot = "TradingBot"
    /\ Len(trade_history) < MaxTrades
    /\ \E current_price \in OptionalOf(CurrentPrices),
          previous_price \in OptionalOf(CurrentPrices) :
         IF current_price = None \/ previous_price = None
         THEN /\ cycle' = Skipped
              /\ calls' = SimPriceCalls
              /\ inputs' = Inputs(Got(current_price), Got(previous_price),
                                  "unasked", "unasked")
              /\ UNCHANGED <<balance, positions, trade_history>>
         ELSE \E recent_data \in HistoricalData :
                IF recent_data \in {"None", "empty"}
                THEN /\ cycle' = Skipped
                     /\ calls' = SimPriceCalls \o SimDataCall
                     /\ inputs' = Inputs("value", "value", recent_data,
                                         "unasked")
                     /\ UNCHANGED <<balance, positions, trade_history>>
                ELSE \E predicted_price \in Predictions :
                       /\ inputs' = Inputs("value", "value", recent_data,
                                           Got(predicted_price))
                       /\ IF predicted_price = None
                          THEN /\ cycle' = Skipped
                               /\ calls' = SimPriceCalls \o SimDataCall
                                               \o PredictCall
                               /\ UNCHANGED <<balance, positions,
                                              trade_history>>
                          ELSE /\ calls' = SimPriceCalls \o SimDataCall
                                               \o PredictCall \o DecisionCall
                               /\ SimMakeTradingDecision(Val(current_price),
                                                         Val(predicted_price))
    /\ UNCHANGED <<bot, max_position_size, instruments_cache, confirmed,
                   broker_held, op>>
    /\ UNCHANGED reqVars

(***************************************************************************)
(* AlfaBroker: what each operation makes of the outcome of _make_request.  *)
(* An outcome is "failed" (_make_request returned None), "empty" (a JSON   *)
(* body that is falsy in Python, {}) or "body" with the payload the caller *)
(* reads.                                                                  *)
(***************************************************************************)
\* Python's truth value of what _make_request returned: "if response:"
Truthy(response) == response.kind = "body"

Instrument(ticker, figi) == [ticker |-> ticker, figi |-> figi]

SearchOutcomes ==
    {[kind |-> "failed", instruments |-> <<>>],
     [kind |-> "empty", instruments |-> <<>>]} \cup
    {[kind |-> "body", instruments |-> l] : l \in
        {<<>>,
         <<Instrument("SBERP", "F2")>>,
         <<Instrument("sber", "F3")>>,
         <<Instrument("SBERP", "F2"), Instrument("SBER", "F1")>>,
         <<Instrument("SBER", "F1"), Instrument("SBER", "F9")>>,
         <<Instrument("SBER", "")>>}}

\* an entry of last_prices: its 'price' is a number, or text that float()
\* does not accept
PriceData(kind, price) == [kind |-> kind, price |-> price]

PriceOutcomes ==
    {[kind |-> "failed", last_prices |-> <<>>],
     [kind |-> "empty", last_prices |-> <<>>],
     [kind |-> "body", last_prices |-> <<>>],
     [kind |-> "body", last_prices |-> <<PriceData("text", 0)>>]} \cup
    {[kind |-> "body", last_prices |-> <<PriceData("number", p)>>] :
        p \in CurrentPrices \cup {0}}

\* a candle is "bar", or "text" when one of its fields is not a number
CandleOutcomes ==
    {[kind |-> "failed", candles |-> <<>>],
     [kind |-> "empty", candles |-> <<>>],
     [kind |-> "body", candles |-> <<>>],
     [kind |-> "body", candles |-> <<"bar">>],
     [kind |-> "body", candles |-> <<"bar", "text">>]}

\* an entry of positions: its 'balance' is a number, or text that float()
\* does not accept
Position(ticker, instrument_type, bal) ==
    [ticker |-> ticker, instrument_type |-> instrument_type,
     kind |-> "number", balance |-> bal]

TextPosition(ticker, instrument_type) ==
    [ticker |-> ticker, instrument_type |-> instrument_type,
     kind |-> "text", balance |-> 0]

\* an entry of positions without a 'balance'
BarePosition(ticker, instrument_type) ==
    [ticker |-> ticker, instrument_type |-> instrument_type,
     kind |-> "absent", balance |-> 0]

\* share quantities and rouble balances a portfolio answer may list; a
\* quantity of 0 is a portfolio without a position in the symbol
HeldQuantities == {0, 10}
RubBalances == {0, 500, 10000}

SharePart(n) == IF n = 0 THEN <<>> ELSE <<Position(symbol, "share", n)>>

RubPart(b) ==
    IF b = None THEN <<>> ELSE <<Position("RUB", "currency", Val(b))>>

\* a rouble position whose balance is not a number
TextRubPart == <<TextPosition("RUB", "currency")>>

\* the outcomes of a portfolio request: it fails, or it lists the shares
\* held and the rouble balance, the latter a number or not.  While the
\* account is traded by this bot alone (held is a quantity) an answer lists
\* exactly the shares held; otherwise (held is None) it may list any
\* quantity.
PortfolioOutcomes(held) ==
    {[kind |-> "failed", positions |-> <<>>],
     [kind |-> "empty", positions |-> <<>>]} \cup
    {[kind |-> "body", positions |-> SharePart(n) \o RubPart(b)] :
        n \in IF held = None THEN HeldQuantities ELSE {Val(held)},
        b \in OptionalOf(RubBalances)} \cup
    {[kind |-> "body", positions |-> SharePart(n) \o TextRubPart] :
        n \in IF held = None THEN {0} ELSE {Val(held)}}

\* the outcomes of the portfolio request of which a signal reads the
\* position in the symbol only: the rouble positions, which it passes over,
\* are left out
PositionOutcomes(held) ==
    {p \in PortfolioOutcomes(held) :
        \A i \in DOMAIN p.positions : p.positions[i].ticker # "RUB"}

OrderOutcomes ==
    {[kind |-> "failed", order_id |-> ""],
     [kind |-> "empty", order_id |-> ""],
     [kind |-> "body", order_id |-> "ord-1"]}

\* the first of the indices in S, 0 when there is none: the element at which
\* "for x in xs: if test(x): ..." returns or breaks
FirstIndex(S) == IF S = {} THEN 0 ELSE CHOOSE i \in S : \A j \in S : i <= j

\* what an operation hands its caller: a value (None included), or an
\* exception that leaves the operation
Return(value) == [raised |-> FALSE, value |-> value]
Raise == [raised |-> TRUE, value |-> None]

\* AlfaBroker.get_portfolio: the response, or None
GetPortfolio(response) ==
    IF Truthy(response) THEN Some(response) ELSE None

\* position.get('balance', 0)
BalanceOf(position) == IF position.kind = "absent" THEN 0 ELSE position.balance

\* GetBalance that returns the balance of the last rouble position listed
GetBalanceLastMatch(response) ==
    LET portfolio == GetPortfolio(response)
        IsRub(p) == p.instrument_type = "currency" /\ p.ticker = "RUB"
    IN  IF portfolio = None THEN Return(None)
        ELSE LET list == Val(portfolio).positions
                 matches == {k \in DOMAIN list : IsRub(list[k])}
             IN  IF matches = {} THEN Return(None)
                 ELSE LET i == CHOOSE k \in matches : \A j \in matches : j <= k
                      IN  IF list[i].kind = "text" THEN Raise
                          ELSE Return(Some(BalanceOf(list[i])))

\* AlfaBroker.get_balance on the outcome of its portfolio request: the
\* balance of the first position of type currency and ticker RUB; float()
\* raises ValueError on a balance that is not a number
GetBalance(response) ==
    LET portfolio == GetPortfolio(response)
        IsRub(p) == p.instrument_type = "currency" /\ p.ticker = "RUB"
    IN  IF portfolio = None THEN Return(None)
        ELSE LET list == Val(portfolio).positions
                 i == FirstIndex({k \in DOMAIN list : IsRub(list[k])})
             IN  IF i = 0 THEN Return(None)
                 ELSE IF list[i].kind = "text" THEN Raise
                 ELSE Return(Some(BalanceOf(list[i])))

\* current_position as _buy_signal and _sell_signal read it off the portfolio
CurrentPosition(response) ==
    LET portfolio == GetPortfolio(response)
        IsSymbol(p) == p.ticker = symbol
    IN  IF portfolio = None THEN 0
        ELSE LET list == Val(portfolio).positions
                 i == FirstIndex({k \in DOMAIN list : IsSymbol(list[k])})
             IN  IF i = 0 THEN 0 ELSE Val(portfolio).positions[i].balance

\* AlfaBroker.search_instrument
SearchInstrument(response) ==
    IF Truthy(response) THEN Some(response.instruments) ELSE None

\* GetInstrumentByTicker that searches on every call and overwrites the
\* cached entry
GetInstrumentByTickerUncached(cache, ticker, search) ==
    LET instruments == SearchInstrument(search)
        Matches(x) == x.ticker = ticker
        i == IF instruments = None THEN 0
             ELSE FirstIndex({k \in DOMAIN Val(instruments) :
                                 Matches(Val(instruments)[k])})
    IN  IF i = 0
        THEN [instrument |-> None, cache |-> cache]
        ELSE [instrument |-> Some(Val(instruments)[i]),
              cache |-> Put(cache, ticker, Val(instruments)[i])]

\* GetInstrumentByTicker that takes the last exact match of the search
GetInstrumentByTickerLastMatch(cache, ticker, search) ==
    IF ticker \in DOMAIN cache
    THEN [instrument |-> Some(cache[ticker]), cache |-> cache]
    ELSE LET instruments == SearchInstrument(search)
             M == IF instruments = None THEN {}
                  ELSE {k \in DOMAIN Val(instruments) :
                           Val(instruments)[k].ticker = ticker}
         IN  IF M = {}
             THEN [instrument |-> None, cache |-> cache]
             ELSE LET i == CHOOSE k \in M : \A j \in M : j <= k
                  IN  [instrument |-> Some(Val(instruments)[i]),
                       cache |-> Put(cache, ticker, Val(instruments)[i])]

\* GetInstrumentByTicker that takes the first result of the search,
\* whatever its ticker
GetInstrumentByTickerAnyTicker(cache, ticker, search) ==
    IF ticker \in DOMAIN cache
    THEN [instrument |-> Some(cache[ticker]), cache |-> cache]
    ELSE LET instruments == SearchInstrument(search)
         IN  IF instruments = None \/ Val(instruments) = <<>>
             THEN [instrument |-> None, cache |-> cache]
             ELSE [instrument |-> Some(Val(instruments)[1]),
                   cache |-> Put(cache, ticker, Val(instruments)[1])]

\* GetInstrumentByTicker that remembers a lookup that found nothing
GetInstrumentByTickerRemembered(cache, ticker, search) ==
    IF ticker \in DOMAIN cache
    THEN [instrument |-> Some(cache[ticker]), cache |-> cache]
    ELSE LET instruments == SearchInstrument(search)
             Matches(x) == x.ticker = ticker
             i == IF instruments = None THEN 0
                  ELSE FirstIndex({k \in DOMAIN Val(instruments) :
                                      Matches(Val(instruments)[k])})
         IN  IF i = 0
             THEN [instrument |-> None,
                   cache |-> Put(cache, ticker, Instrument("", ""))]
             ELSE [instrument |-> Some(Val(instruments)[i]),
                   cache |-> Put(cache, ticker, Val(instruments)[i])]

\* AlfaBroker.get_instrument_by_ticker: the instrument found (or None) and
\* the cache afterwards; search is the outcome of the search request, which
\* is sent only when the ticker is not cached
GetInstrumentByTicker(cache, ticker, search) ==
    IF ticker \in DOMAIN cache
    THEN [instrument |-> Some(cache[ticker]), cache |-> cache]
    ELSE LET instruments == SearchInstrument(search)
             Matches(x) == x.ticker = ticker
             i == IF instruments = None THEN 0
                  ELSE FirstIndex({k \in DOMAIN Val(instruments) :
                                      Matches(Val(instruments)[k])})
         IN  IF i = 0
             THEN [instrument |-> None, cache |-> cache]
             ELSE [instrument |-> Some(Val(instruments)[i]),
                   cache |-> Put(cache, ticker, Val(instruments)[i])]

\* the endpoints the operations request
SearchEndpoint == "/instruments/search"
LastPricesEndpoint == "/market-data/last-prices"
CandlesEndpoint == "/market-data/candles"
OrdersEndpoint == "/orders"
PortfolioEndpoint == "/accounts/{account_id}/portfolio"
AccountEndpoint == "/accounts/{account_id}"

\* the request get_instrument_by_ticker sends: a search, unless the ticker
\* is cached
InstrumentRequests(cache, ticker) ==
    IF ticker \in DOMAIN cache THEN <<>> ELSE <<SearchEndpoint>>

\* "if not instrument: return None" and "if not figi: return None": an
\* operation goes on to its own request only with an instrument and a figi
HasFigi(instrument) == instrument # None /\ Val(instrument).figi # ""

\* the request an operation sends after the lookup
FigiRequests(instrument, endpoint) ==
    IF HasFigi(instrument) THEN <<endpoint>> ELSE <<>>

\* GetCurrentPrice that reads last_prices[0] without looking whether the
\* list has an entry: IndexError on an empty list
GetCurrentPriceUnguarded(instrument, response) ==
    IF ~HasFigi(instrument) THEN Return(None)
    ELSE IF Truthy(response)
    THEN IF Len(response.last_prices) > 0
              /\ response.last_prices[1].kind = "number"
         THEN Return(Some(response.last_prices[1].price))
         ELSE Raise
    ELSE Return(None)

\* AlfaBroker.get_current_price, given the instrument lookup's result;
\* float() raises ValueError on a price that is not a number
GetCurrentPrice(instrument, response) ==
    IF instrument = None THEN Return(None)
    ELSE IF Val(instrument).figi = "" THEN Return(None)
    ELSE IF Truthy(response) /\ Len(response.last_prices) > 0
    THEN LET price_data == response.last_prices[1]
         IN  IF price_data.kind = "number"
             THEN Return(Some(price_data.price))
             ELSE Raise
    ELSE Return(None)

\* AlfaBroker.get_candles, given the instrument lookup's result
GetCandles(instrument, response) ==
    IF instrument = None THEN None
    ELSE IF Val(instrument).figi = "" THEN None
    ELSE IF Truthy(response) THEN Some(response.candles)
    ELSE None

\* direction.upper()
Upper(direction) ==
    CASE direction = "buy" -> "BUY"
      [] direction = "sell" -> "SELL"
      [] OTHER -> direction

\* OrderData for a single share whatever quantity was asked for
OrderDataOneShare(figi, quantity, direction) ==
    Order(Upper(direction), 1, figi)

\* OrderData that transmits the quantity with its sign
OrderDataSigned(figi, quantity, direction) ==
    Order(Upper(direction), quantity, figi)

\* order_data of AlfaBroker.place_market_order
OrderData(figi, quantity, direction) ==
    Order(Upper(direction), Abs(quantity), figi)

\* AlfaBroker.place_market_order: the order request sent (or None) and the
\* confirmation returned (or None)
PlaceMarketOrder(instrument, quantity, direction, response) ==
    IF instrument = None \/ Val(instrument).figi = ""
    THEN [sent |-> None, result |-> None]
    ELSE [sent |-> Some(OrderData(Val(instrument).figi, quantity, direction)),
          result |-> IF Truthy(response) THEN Some(response.order_id) ELSE None]

(***************************************************************************)
(* AlfaTradingBot.                                                         *)
(***************************************************************************)
\* AlfaTrade with quantity and price filled in the wrong way round
AlfaTradeSwapped(action, quantity, price, expected_change, order_id) ==
    [action |-> action, symbol |-> symbol, quantity |-> price,
     price |-> quantity, expected_change |-> expected_change,
     order_id |-> order_id]

\* the trade dict of AlfaTradingBot
AlfaTrade(action, quantity, price, expected_change, order_id) ==
    [action |-> action, symbol |-> symbol, quantity |-> quantity,
     price |-> price, expected_change |-> expected_change,
     order_id |-> order_id]

\* "if order_result:" in _buy_signal and _sell_signal
OrderConfirmed(order_result) == order_result # None

\* LedgerAfterBuy that overwrites the quantity held
LedgerAfterBuyOverwrite(quantity) == Put(positions, symbol, quantity)

\* the ledger after a recorded BUY: self.positions[symbol] = get(symbol, 0) + quantity
LedgerAfterBuy(quantity) ==
    Put(positions, symbol, Get(positions, symbol, 0) + quantity)

\* LedgerAfterSell that subtracts what was sold instead of resetting
LedgerAfterSellSubtract(quantity) ==
    Put(positions, symbol, Get(positions, symbol, 0) - quantity)

\* the ledger after a recorded SELL of quantity: self.positions[symbol] = 0
LedgerAfterSell(quantity) == Put(positions, symbol, 0)

\* AlfaRecord that records the trade without looking at the reply
AlfaRecordUnchecked(seen, action, quantity, current_price, predicted_price, placed) ==
    /\ cycle' = [seen EXCEPT !.order = placed.sent,
                     !.result = IF placed.result = None THEN "rejected"
                                ELSE "confirmed"]
    /\ confirmed' = confirmed + IF placed.result = None THEN 0 ELSE 1
    /\ UNCHANGED broker_held
    /\ trade_history' = Append(trade_history,
           AlfaTrade(action, quantity, current_price,
                     ExpectedChange(current_price, predicted_price),
                     IF placed.result = None THEN "" ELSE Val(placed.result)))
    /\ positions' = IF action = "BUY" THEN LedgerAfterBuy(quantity)
                    ELSE LedgerAfterSell(quantity)

\* AlfaRecord that moves the ledger when the order is sent and records the
\* trade when it is confirmed
AlfaRecordLedgerFirst(seen, action, quantity, current_price, predicted_price, placed) ==
    /\ cycle' = [seen EXCEPT !.order = placed.sent,
                     !.result = IF placed.result = None THEN "rejected"
                                ELSE "confirmed"]
    /\ confirmed' = confirmed + IF placed.result = None THEN 0 ELSE 1
    /\ UNCHANGED broker_held
    /\ positions' = IF action = "BUY" THEN LedgerAfterBuy(quantity)
                    ELSE LedgerAfterSell(quantity)
    /\ IF OrderConfirmed(placed.result)
       THEN trade_history' = Append(trade_history,
                AlfaTrade(action, quantity, current_price,
                          ExpectedChange(current_price, predicted_price),
                          Val(placed.result)))
       ELSE UNCHANGED trade_history

\* the part of a signal after the order was placed: record the trade if
\* "order_result" is truthy, otherwise log the failure.  cycle and confirmed
\* note what the broker client sent and returned, whatever the bot makes of it.
\* A KeyboardInterrupt that arrives as the order call returns leaves the
\* signal before "if order_result:".
AlfaRecord(seen, action, quantity, current_price, predicted_price, placed) ==
    /\ cycle' = [seen EXCEPT !.order = placed.sent,
                     !.result = IF placed.result = None THEN "rejected"
                                ELSE "confirmed"]
    /\ confirmed' = confirmed + IF placed.result = None THEN 0 ELSE 1
    /\ broker_held' =
           IF placed.result = None \/ broker_held = None THEN broker_held
           ELSE IF action = "BUY" THEN Some(Val(broker_held) + quantity)
           ELSE Some(Val(broker_held) - quantity)
    /\ IF OrderConfirmed(placed.result) /\ sigint # "order"
       THEN /\ trade_history' = Append(trade_history,
                   AlfaTrade(action, quantity, current_price,
                             ExpectedChange(current_price, predicted_price),
                             Val(placed.result)))
            /\ positions' = IF action = "BUY" THEN LedgerAfterBuy(quantity)
                            ELSE LedgerAfterSell(quantity)
       ELSE UNCHANGED <<positions, trade_history>>

AlfaBuySignal(current_price, predicted_price, cache) ==
    \E portfolio \in PositionOutcomes(broker_held) :
      LET current_position == CurrentPosition(portfolio)
          seen == [Skipped EXCEPT !.branch = "BUY", !.cur = Some(current_price),
                       !.pred = Some(predicted_price),
                       !.pos_read = Some(current_position)]
      IN  IF current_position > 0
          THEN /\ cycle' = seen
               /\ UNCHANGED <<positions, trade_history, confirmed, broker_held>>
          ELSE \E portfolio2 \in PortfolioOutcomes(broker_held) :
                 LET got == GetBalance(portfolio2)
                     bal == got.value
                 IN  IF got.raised
                     THEN /\ cycle' = [seen EXCEPT !.result = "raised"]
                          /\ UNCHANGED <<positions, trade_history, confirmed, broker_held>>
                     ELSE IF bal = None \/ Val(bal) = 0
                     THEN /\ cycle' = [seen EXCEPT !.bal_read = bal]
                          /\ UNCHANGED <<positions, trade_history, confirmed, broker_held>>
                     ELSE LET quantity == Quantity(Val(bal), current_price)
                              read == [seen EXCEPT !.bal_read = bal]
                          IN  IF quantity > 0
                              THEN \E response \in OrderOutcomes :
                                     AlfaRecord(read, "BUY", quantity,
                                         current_price, predicted_price,
                                         PlaceMarketOrder(
                                             GetInstrumentByTicker(cache, symbol,
                                                 CHOOSE s \in SearchOutcomes :
                                                     s.kind = "failed").instrument,
                                             quantity, "BUY", response))
                              ELSE /\ cycle' = read
                                   /\ UNCHANGED <<positions, trade_history,
                                                  confirmed, broker_held>>

AlfaSellSignal(current_price, predicted_price, cache) ==
    \E portfolio \in PositionOutcomes(broker_held) :
      LET current_position == CurrentPosition(portfolio)
          seen == [Skipped EXCEPT !.branch = "SELL", !.cur = Some(current_price),
                       !.pred = Some(predicted_price),
                       !.pos_read = Some(current_position)]
      IN  IF current_position <= 0
          THEN /\ cycle' = seen
               /\ UNCHANGED <<positions, trade_history, confirmed, broker_held>>
          ELSE \E response \in OrderOutcomes :
                 AlfaRecord(seen, "SELL", current_position,
                     current_price, predicted_price,
                     PlaceMarketOrder(
                         GetInstrumentByTicker(cache, symbol,
                             CHOOSE s \in SearchOutcomes :
                                 s.kind = "failed").instrument,
                         current_position, "SELL", response))

\* AlfaTradingBot._convert_candles_to_dataframe: the data frame, "empty"
\* for no candles; float() and int() raise on a field that is not a number
ConvertCandlesToDataframe(candles) ==
    IF \E i \in DOMAIN candles : candles[i] = "text" THEN Raise
    ELSE IF candles = <<>> THEN Return(Some("empty"))
    ELSE Return(Some("bars"))

\* AlfaTradingBot._make_trading_decision; a current price of 0 raises
\* ZeroDivisionError, which leaves the cycle through run()'s handler
AlfaMakeTradingDecision(current_price, predicted_price, cache) ==
    IF current_price = 0
    THEN /\ cycle' = [Skipped EXCEPT !.branch = "ERROR",
                          !.cur = Some(current_price),
                          !.pred = Some(predicted_price)]
         /\ UNCHANGED <<positions, trade_history, confirmed, broker_held>>
    ELSE IF BuyDecision(current_price, predicted_price)
    THEN AlfaBuySignal(current_price, predicted_price, cache)
    ELSE IF SellDecision(current_price, predicted_price)
    THEN AlfaSellSignal(current_price, predicted_price, cache)
    ELSE /\ cycle' = [Skipped EXCEPT !.branch = "HOLD",
                          !.cur = Some(current_price),
                          !.pred = Some(predicted_price)]
         /\ UNCHANGED <<positions, trade_history, confirmed, broker_held>>

\* an exception leaves _trading_cycle before the trading decision
AlfaRaise ==
    /\ cycle' = [Skipped EXCEPT !.branch = "ERROR"]
    /\ UNCHANGED <<positions, trade_history, confirmed, broker_held>>

\* NoCandles that takes an empty list of candles for data
NoCandlesNoneOnly(candles) == candles = None

\* "if not recent_candles:", "if not candles:": None and the empty list alike
NoCandles(candles) == candles = None \/ Val(candles) = <<>>

\* AlfaSkip that forgets the ledger
AlfaSkipLedgerCleared ==
    /\ cycle' = Skipped
    /\ positions' = EmptyDict
    /\ UNCHANGED <<trade_history, confirmed, broker_held>>

\* AlfaSkip that empties the trade history
AlfaSkipHistoryCleared ==
    /\ cycle' = Skipped
    /\ trade_history' = <<>>
    /\ UNCHANGED <<positions, confirmed, broker_held>>

\* _trading_cycle returns before the trading decision
AlfaSkip ==
    /\ cycle' = Skipped
    /\ UNCHANGED <<positions, trade_history, confirmed, broker_held>>

\* a request that was not sent
Unsent == [kind |-> "unsent"]

\* a call of an AlfaBroker operation: the arguments, the answers the
\* broker has for the instrument search and for the operation's own request
\* (whether or not they are asked for), the order data transmitted and what
\* the operation handed back
Op(name, ticker, quantity, direction, search, response, sent, result) ==
    [name |-> name, ticker |-> ticker, quantity |-> quantity,
     direction |-> direction, search |-> search, response |-> response,
     sent |-> sent, result |-> result]

NoOp == Op("", "", 0, "", Unsent, Unsent, None, Return(None))

\* AlfaTradingBot._trading_cycle: price, candles, prediction, decision.
\* The instrument search is requested only while the symbol is not cached;
\* get_candles and place_market_order find it cached by get_current_price.
\* Answers to requests the cycle does not send are not drawn.
AlfaTradingCycle ==
    /\ bot = "AlfaTradingBot"
    /\ Len(trade_history) < MaxTrades
    /\ \E search \in IF symbol \in DOMAIN instruments_cache
                     THEN {s \in SearchOutcomes : s.kind = "failed"}
                     ELSE SearchOutcomes :
         LET found == GetInstrumentByTicker(instruments_cache, symbol, search)
             lookup == InstrumentRequests(instruments_cache, symbol)
             asked == lookup \o FigiRequests(found.instrument,
                                             LastPricesEndpoint)
             fetched == asked \o InstrumentRequests(found.cache, symbol)
                              \o FigiRequests(found.instrument,
                                              CandlesEndpoint)
         IN  /\ instruments_cache' = found.cache
             /\ \E price \in IF HasFigi(found.instrument) THEN PriceOutcomes
                             ELSE {r \in PriceOutcomes : r.kind = "failed"} :
                  LET current_price == GetCurrentPrice(found.instrument, price)
                  IN  /\ op' = Op("get_current_price", symbol, 0, "",
                                  search, price, None, current_price)
                      /\ IF current_price.raised
                         THEN /\ calls' = asked
                              /\ inputs' = Inputs("raised", "unasked",
                                                  "unasked", "unasked")
                              /\ AlfaRaise
                         ELSE IF current_price.value = None
                         THEN /\ calls' = asked
                              /\ inputs' = Inputs("None", "unasked",
                                                  "unasked", "unasked")
                              /\ AlfaSkip
                         ELSE \E candles \in CandleOutcomes :
                                LET recent_candles ==
                                        GetCandles(found.instrument, candles)
                                    recent ==
                                        IF recent_candles = None THEN "None"
                                        ELSE IF Val(recent_candles) = <<>>
                                        THEN "empty"
                                        ELSE "bars"
                                IN  IF NoCandles(recent_candles)
                                    THEN /\ calls' = fetched
                                         /\ inputs' = Inputs("value", "unasked",
                                                             recent, "unasked")
                                         /\ AlfaSkip
                                    ELSE IF ConvertCandlesToDataframe(
                                                Val(recent_candles)).raised
                                    THEN /\ calls' = fetched
                                         /\ inputs' = Inputs("value", "unasked",
                                                             "raised", "unasked")
                                         /\ AlfaRaise
                                    ELSE \E predicted_price \in Predictions :
                                           /\ inputs' = Inputs("value",
                                                   "unasked", recent,
                                                   Got(predicted_price))
                                           /\ IF predicted_price = None
                                              THEN /\ calls' = fetched
                                                          \o PredictCall
                                                   /\ AlfaSkip
                                              ELSE /\ calls' = fetched
                                                          \o PredictCall
                                                          \o DecisionCall
                                                   /\ AlfaMakeTradingDecision(
                                                          Val(current_price.value),
                                                          Val(predicted_price),
                                                          found.cache)
    /\ UNCHANGED <<bot, max_position_size, balance>>
    /\ UNCHANGED reqVars

(***************************************************************************)
(* run(): the connection check, the training of the model and the loop.    *)
(***************************************************************************)
\* time.sleep(60) after a cycle
CyclePause == 60
\* time.sleep(30) after an exception in a cycle
ErrorPause == 30

\* an exception left the cycle: before or in the decision (branch ERROR), or
\* in the signal the decision called (result raised)
Raised(c) == c.branch = "ERROR" \/ c.result = "raised"

\* SleepAfterCycle with the pause of a cycle after an exception too
SleepAlwaysCyclePause == pause' = CyclePause

\* the sleep that ends a pass of the loop: time.sleep(60) in the try block,
\* time.sleep(30) in the handler of "except Exception"
SleepAfterCycle ==
    pause' = IF Raised(cycle') THEN ErrorPause ELSE CyclePause

\* trade_history[-5:]
LastTrades == 5

LastOf(history) ==
    SubSeq(history,
           IF Len(history) > LastTrades THEN Len(history) - LastTrades + 1
           ELSE 1,
           Len(history))

\* what one call of _print_final_stats logged: the number of trades, the
\* final balance (None when no balance line was logged), the last trades,
\* and whether the call ran to its end
FinalStats(trades, bal, last, finished) ==
    [trades |-> trades, balance |-> bal, last |-> last, finished |-> finished]

\* "if balance:" of AlfaTradingBot._print_final_stats
LoggedBalance(bal) == IF bal = None \/ Val(bal) = 0 THEN None ELSE bal

\* stop(): self.is_running = False, then _print_final_stats(), which asks
\* the broker for the balance in AlfaTradingBot; an exception of get_balance
\* leaves stop() and run()
Stop ==
    /\ is_running' = FALSE
    /\ IF bot = "TradingBot"
       THEN /\ final_stats' = Append(final_stats,
                   FinalStats(Len(trade_history'), Some(balance'),
                              LastOf(trade_history'), TRUE))
            /\ run' = "Stopped"
       ELSE \E portfolio \in PortfolioOutcomes(broker_held') :
              LET got == GetBalance(portfolio)
              IN  IF got.raised
                  THEN /\ final_stats' = Append(final_stats,
                              FinalStats(Len(trade_history'), None, <<>>,
                                         FALSE))
                       /\ run' = "Raised"
                  ELSE /\ final_stats' = Append(final_stats,
                              FinalStats(Len(trade_history'),
                                         LoggedBalance(got.value),
                                         LastOf(trade_history'), TRUE))
                       /\ run' = "Stopped"

\* one pass of TradingBot.run's "while self.is_running:"
SimLoopPass ==
    /\ run = "Running"
    /\ is_running
    /\ SimTradingCycle
    /\ SleepAfterCycle
    /\ UNCHANGED <<runVars, procVars, unitVars>>

\* one pass of AlfaTradingBot.run's "while self.is_running:"; a
\* KeyboardInterrupt that left the cycle is handled by stop()
AlfaLoopPass ==
    /\ run = "Running"
    /\ is_running
    /\ AlfaTradingCycle
    /\ IF sigint = "order" /\ cycle'.result \in {"confirmed", "rejected"}
       THEN /\ Stop
            /\ sigint' = "none"
            /\ UNCHANGED <<is_trained, pause, exit_code>>
       ELSE /\ SleepAfterCycle
            /\ UNCHANGED <<runVars, procVars>>
    /\ UNCHANGED unitVars

\* AlfaBroker.get_account_info's request
AccountOutcomes ==
    {[kind |-> "failed", name |-> ""],
     [kind |-> "empty", name |-> ""],
     [kind |-> "body", name |-> "account"]}

\* predictor.train_model(historical_data) returns True, and then
\* is_trained is set, when there is data and the fit goes through
TrainModel(historical_data, fitted) == historical_data = "bars" /\ fitted

\* AfterTraining that goes on to the loop whatever _train_model returned
AfterTrainingAlwaysLoop(trained) == "Running"

\* "if not self._train_model(): return": where run() stands after training
AfterTraining(trained) == IF trained THEN "Running" ELSE "Returned"

DataCall(historical_data) ==
    IF historical_data = "bars" THEN <<"predictor.train_model">> ELSE <<>>

\* PricePredictor.model after train_model: the new RandomForestRegressor
\* is assigned before fit(), so a failure of the fit or of the evaluation
\* leaves a model that is not fitted; a failure before that leaves the model
\* as it was
ModelAfterTraining(old, historical_data, fitted, reached_fit) ==
    IF historical_data # "bars" THEN old
    ELSE IF fitted THEN "fitted"
    ELSE IF reached_fit THEN "unfitted"
    ELSE old

\* TradingBot.run up to the training: self.is_running = True
SimStart ==
    /\ bot = "TradingBot"
    /\ run = "NotStarted"
    /\ is_running' = TRUE
    /\ run' = "TrainingModel"
    /\ calls' = <<>>
    /\ UNCHANGED <<tradeVars, instruments_cache, op, is_trained, pause>>
    /\ UNCHANGED <<procVars, unitVars>>
    /\ UNCHANGED reqVars

\* AlfaStart that goes on to the training whatever the account request gave
AlfaStartUnchecked ==
    /\ bot = "AlfaTradingBot"
    /\ run = "NotStarted"
    /\ \E account \in AccountOutcomes :
         /\ calls' = <<AccountEndpoint>>
         /\ is_running' = TRUE
         /\ run' = "TrainingModel"
    /\ UNCHANGED <<tradeVars, instruments_cache, op, is_trained, pause>>
    /\ UNCHANGED <<procVars, unitVars>>
    /\ UNCHANGED reqVars

\* AlfaTradingBot.run up to the training: _check_broker_connection, which
\* asks for the account and, when it answered, for the balance, and
\* self.is_running = True; an exception of get_balance leaves run()
AlfaStart ==
    /\ bot = "AlfaTradingBot"
    /\ run = "NotStarted"
    /\ \E account \in AccountOutcomes :
         IF Truthy(account)
         THEN \E portfolio \in PortfolioOutcomes(broker_held) :
                /\ calls' = <<AccountEndpoint, PortfolioEndpoint>>
                /\ IF GetBalance(portfolio).raised
                   THEN /\ UNCHANGED is_running
                        /\ run' = "Raised"
                   ELSE /\ is_running' = TRUE
                        /\ run' = "TrainingModel"
         ELSE /\ UNCHANGED is_running
              /\ run' = "Returned"
              /\ calls' = <<AccountEndpoint>>
    /\ UNCHANGED <<tradeVars, instruments_cache, op, is_trained, pause>>
    /\ UNCHANGED <<procVars, unitVars>>
    /\ UNCHANGED reqVars

\* TradingBot._train_model and run()'s branch on its result
SimTrain ==
    /\ bot = "TradingBot"
    /\ run = "TrainingModel"
    /\ \E historical_data \in HistoricalData, fitted \in BOOLEAN :
         LET trained == /\ historical_data \notin {"None", "empty"}
                        /\ TrainModel(historical_data, fitted)
         IN  /\ is_trained' = (is_trained \/ trained)
             /\ succeeded' = (succeeded \/ trained)
             /\ \E reached_fit \in BOOLEAN :
                  model' = ModelAfterTraining(model, historical_data, fitted,
                                              reached_fit)
             /\ run' = AfterTraining(trained)
             /\ calls' = <<"data_provider.get_historical_data">>
                             \o DataCall(historical_data)
    /\ UNCHANGED <<tradeVars, instruments_cache, op, is_running, pause>>
    /\ UNCHANGED <<procVars, environ, config>>
    /\ UNCHANGED reqVars

\* FallbackCall that asks the data provider whatever the broker returned
FallbackCallAlways(usable) == <<"data_provider.get_historical_data">>

\* the call of the data provider _train_model makes when usable is false
FallbackCall(usable) ==
    IF usable THEN <<>> ELSE <<"data_provider.get_historical_data">>

\* AlfaTradingBot._train_model and run()'s branch on its result: candles of
\* the broker, converted to a data frame, or the data provider's history
\* when there are none; an exception of the conversion leaves run().
\* inputs notes the historical_data it came to hold.
AlfaTrain ==
    /\ bot = "AlfaTradingBot"
    /\ run = "TrainingModel"
    /\ \E search \in IF symbol \in DOMAIN instruments_cache
                     THEN {s \in SearchOutcomes : s.kind = "failed"}
                     ELSE SearchOutcomes :
         LET found == GetInstrumentByTicker(instruments_cache, symbol, search)
         IN  \E response \in IF HasFigi(found.instrument) THEN CandleOutcomes
                             ELSE {r \in CandleOutcomes : r.kind = "failed"} :
               LET candles == GetCandles(found.instrument, response)
                   usable == ~NoCandles(candles)
                   converted == IF usable
                                THEN ConvertCandlesToDataframe(Val(candles))
                                ELSE Return(None)
                   requests == InstrumentRequests(instruments_cache, symbol)
                                   \o FigiRequests(found.instrument,
                                                   CandlesEndpoint)
               IN  /\ instruments_cache' = found.cache
                   /\ op' = Op("get_candles", symbol, 0, "", search,
                               response, None, Return(candles))
                   /\ IF converted.raised
                      THEN /\ run' = "Raised"
                           /\ calls' = requests
                           /\ inputs' = Inputs("unasked", "unasked", "raised",
                                               "unasked")
                           /\ UNCHANGED <<is_trained, model, succeeded>>
                      ELSE \E historical_data \in
                                 IF usable THEN {Val(converted.value)}
                                 ELSE HistoricalData,
                              fitted \in BOOLEAN :
                             LET trained ==
                                     /\ historical_data \notin {"None", "empty"}
                                     /\ TrainModel(historical_data, fitted)
                             IN  /\ is_trained' = (is_trained \/ trained)
                                 /\ succeeded' = (succeeded \/ trained)
                                 /\ \E reached_fit \in BOOLEAN :
                                      model' = ModelAfterTraining(model,
                                          historical_data, fitted, reached_fit)
                                 /\ run' = AfterTraining(trained)
                                 /\ inputs' = Inputs("unasked", "unasked",
                                                     historical_data, "unasked")
                                 /\ calls' = requests \o FallbackCall(usable)
                                                \o DataCall(historical_data)
    /\ UNCHANGED <<bot, max_position_size, balance, positions, trade_history,
                   cycle, confirmed, broker_held>>
    /\ UNCHANGED <<is_running, pause>>
    /\ UNCHANGED <<procVars, environ, config>>
    /\ UNCHANGED reqVars

\* KeyboardInterrupt inside the loop's try block while no cycle is under
\* way (in time.sleep(60), or as the next pass begins): the handler calls
\* self.stop(), and the loop's condition ends run()
Interrupt ==
    /\ run = "Running"
    /\ is_running
    /\ sigint = "none"
    /\ UNCHANGED tradeVars
    /\ Stop
    /\ calls' = IF bot = "AlfaTradingBot" THEN <<PortfolioEndpoint>> ELSE <<>>
    /\ UNCHANGED <<instruments_cache, op, is_trained, pause>>
    /\ UNCHANGED <<sigint, exit_code, unitVars>>
    /\ UNCHANGED reqVars

\* KeyboardInterrupt before the loop, in _check_broker_connection or in
\* _train_model: no handler of run() or main() catches it, and it ends the
\* process without stop()
InterruptStartup ==
    /\ \/ run = "TrainingModel"
       \/ run = "NotStarted" /\ bot = "AlfaTradingBot"
    /\ run' = "Interrupted"
    /\ calls' = <<>>
    /\ UNCHANGED <<tradeVars, instruments_cache, op, is_running, is_trained,
                   pause>>
    /\ UNCHANGED <<procVars, unitVars>>
    /\ UNCHANGED reqVars

\* KeyboardInterrupt in time.sleep(30) of the handler of "except Exception":
\* raised inside a handler, it is caught by no clause of the try statement
\* and ends the process without stop()
InterruptRecovery ==
    /\ run = "Running"
    /\ is_running
    /\ Raised(cycle)
    /\ pause = ErrorPause
    /\ run' = "Interrupted"
    /\ calls' = <<>>
    /\ UNCHANGED <<tradeVars, instruments_cache, op, is_running, is_trained,
                   pause>>
    /\ UNCHANGED <<procVars, unitVars>>
    /\ UNCHANGED reqVars

\* sys.exit(1)
ExitFailure == 1

\* main() after bot.run(): an exception that left run() is caught and ends
\* the process with sys.exit(1); when run() returned, main() returns and the
\* process ends with exit code 0
MainExit ==
    /\ run \in {"Returned", "Stopped", "Raised"}
    /\ exit_code = None
    /\ exit_code' = IF run = "Raised" THEN Some(ExitFailure) ELSE Some(0)
    /\ calls' = <<>>
    /\ UNCHANGED <<tradeVars, instruments_cache, op, runVars, pause>>
    /\ UNCHANGED <<sigint, final_stats, unitVars>>
    /\ UNCHANGED reqVars

(***************************************************************************)
(* AlfaBroker's operations called on their own, for any ticker.            *)
(***************************************************************************)
Tickers == {"SBER", "SBERP"}
OrderQuantities == {-3, 0, 5}
Directions == {"buy", "SELL"}

BrokerGetInstrumentByTicker ==
    /\ \E ticker \in Tickers, search \in SearchOutcomes :
         LET found == GetInstrumentByTicker(instruments_cache, ticker, search)
         IN  /\ instruments_cache' = found.cache
             /\ calls' = InstrumentRequests(instruments_cache, ticker)
             /\ op' = Op("get_instrument_by_ticker", ticker, 0, "", search,
                         Unsent, None, Return(found.instrument))
    /\ UNCHANGED <<tradeVars, runVars, pause, procVars, unitVars>>
    /\ UNCHANGED reqVars

BrokerGetCurrentPrice ==
    /\ \E ticker \in Tickers, search \in SearchOutcomes,
          response \in PriceOutcomes :
         LET found == GetInstrumentByTicker(instruments_cache, ticker, search)
         IN  /\ instruments_cache' = found.cache
             /\ calls' = InstrumentRequests(instruments_cache, ticker)
                             \o FigiRequests(found.instrument,
                                             LastPricesEndpoint)
             /\ op' = Op("get_current_price", ticker, 0, "", search,
                         response, None,
                         GetCurrentPrice(found.instrument, response))
    /\ UNCHANGED <<tradeVars, runVars, pause, procVars, unitVars>>
    /\ UNCHANGED reqVars

BrokerGetCandles ==
    /\ \E ticker \in Tickers, search \in SearchOutcomes,
          response \in CandleOutcomes :
         LET found == GetInstrumentByTicker(instruments_cache, ticker, search)
         IN  /\ instruments_cache' = found.cache
             /\ calls' = InstrumentRequests(instruments_cache, ticker)
                             \o FigiRequests(found.instrument,
                                             CandlesEndpoint)
             /\ op' = Op("get_candles", ticker, 0, "", search, response,
                         None,
                         Return(GetCandles(found.instrument, response)))
    /\ UNCHANGED <<tradeVars, runVars, pause, procVars, unitVars>>
    /\ UNCHANGED reqVars

BrokerPlaceMarketOrder ==
    /\ \E ticker \in Tickers, quantity \in OrderQuantities,
          direction \in Directions, search \in SearchOutcomes,
          response \in OrderOutcomes :
         LET found == GetInstrumentByTicker(instruments_cache, ticker, search)
             placed == PlaceMarketOrder(found.instrument, quantity, direction,
                                        response)
         IN  /\ instruments_cache' = found.cache
             /\ calls' = InstrumentRequests(instruments_cache, ticker)
                             \o (IF placed.sent = None THEN <<>>
                                 ELSE <<OrdersEndpoint>>)
             /\ op' = Op("place_market_order", ticker, quantity, direction,
                         search, response, placed.sent,
                         Return(placed.result))
    /\ UNCHANGED <<tradeVars, runVars, pause, procVars, unitVars>>
    /\ UNCHANGED reqVars

\* what the broker answers to the request of cancel_order
CancelOutcomes == {[kind |-> "failed"], [kind |-> "empty"], [kind |-> "body"]}

CancelEndpoint == "/orders/{order_id}/cancel"

\* AlfaBroker.cancel_order: True "if response:", False otherwise
CancelOrder(response) == Truthy(response)

BrokerCancelOrder ==
    /\ \E response \in CancelOutcomes :
         /\ calls' = <<CancelEndpoint>>
         /\ op' = Op("cancel_order", "", 0, "", Unsent, response, None,
                     Return(Some(CancelOrder(response))))
    /\ UNCHANGED instruments_cache
    /\ UNCHANGED <<tradeVars, runVars, pause, procVars, unitVars>>
    /\ UNCHANGED reqVars

\* portfolio answers get_balance is called on: no rouble position, one, one
\* among other positions, two, one of another currency or of another
\* instrument type, one without a balance, one whose balance is not a number
BalanceOutcomes ==
    {[kind |-> "failed", positions |-> <<>>],
     [kind |-> "empty", positions |-> <<>>]} \cup
    {[kind |-> "body", positions |-> l] : l \in
        {<<>>,
         <<Position(symbol, "share", 10)>>,
         <<Position("RUB", "currency", 500)>>,
         <<Position("RUB", "currency", 0)>>,
         <<Position(symbol, "share", 10), Position("RUB", "currency", 10000)>>,
         <<Position("RUB", "currency", 500), Position("RUB", "currency", 10000)>>,
         <<Position("USD", "currency", 500)>>,
         <<Position("RUB", "bond", 500)>>,
         <<Position("USD", "currency", 500), Position("RUB", "currency", 10000)>>,
         <<BarePosition("RUB", "currency")>>,
         <<TextPosition("RUB", "currency")>>,
         <<TextPosition("USD", "currency"), Position("RUB", "currency", 500)>>}}

BrokerGetBalance ==
    /\ \E response \in BalanceOutcomes :
         /\ calls' = <<PortfolioEndpoint>>
         /\ op' = Op("get_balance", "", 0, "", Unsent, response, None,
                     GetBalance(response))
    /\ UNCHANGED instruments_cache
    /\ UNCHANGED <<tradeVars, runVars, pause, procVars, unitVars>>
    /\ UNCHANGED reqVars

(***************************************************************************)
(* Config and PricePredictor on their own, as tests/test_basic.py          *)
(* constructs them.  op notes the latest call; for a method of the         *)
(* predictor its response is the data passed.                              *)
(***************************************************************************)
\* the environments Config is constructed in
UnitEnvironments ==
    {Environ(s, b, None, u) :
        s \in {None, Some("AAPL")}, b \in {None, Some("10000")},
        u \in {None, Some("FALSE")}}

\* the settings Config.set is called with
Settings == {<<"DEFAULT_SYMBOL", "AAPL">>, <<"DEFAULT_SYMBOL", "SBER">>,
             <<"LOG_LEVEL", "DEBUG">>}

Call(name, data, result) ==
    Op(name, "", 0, "", Unsent, [kind |-> data], None, result)

\* Config(): load_dotenv() and _load_default_config()
NewConfig ==
    /\ config' = LoadDefaultConfig(environ)
    /\ op' = Call("Config", "", Return(None))
    /\ calls' = <<>>
    /\ UNCHANGED <<tradeVars, instruments_cache, runVars, pause, procVars>>
    /\ UNCHANGED <<environ, model, succeeded>>
    /\ UNCHANGED reqVars

\* Config.set(key, value)
ConfigSet ==
    /\ \E setting \in Settings :
         /\ config' = Put(config, setting[1], setting[2])
         /\ op' = Call("set", setting[1], Return(None))
    /\ calls' = <<>>
    /\ UNCHANGED <<tradeVars, instruments_cache, runVars, pause, procVars>>
    /\ UNCHANGED <<environ, model, succeeded>>
    /\ UNCHANGED reqVars

\* PricePredictor(config)
NewPredictor ==
    /\ is_trained' = FALSE
    /\ model' = "None"
    /\ succeeded' = FALSE
    /\ op' = Call("PricePredictor", "", Return(None))
    /\ calls' = <<>>
    /\ UNCHANGED <<tradeVars, instruments_cache, is_running, run, pause>>
    /\ UNCHANGED <<procVars, environ, config>>
    /\ UNCHANGED reqVars

\* predictor.train_model(data)
PredictorTrainModel ==
    /\ \E data \in HistoricalData, fitted \in BOOLEAN,
          reached_fit \in BOOLEAN :
         LET trained == TrainModel(data, fitted)
         IN  /\ is_trained' = (is_trained \/ trained)
             /\ model' = ModelAfterTraining(model, data, fitted, reached_fit)
             /\ succeeded' = (succeeded \/ trained)
             /\ op' = Call("train_model", data, Return(Some(trained)))
    /\ calls' = <<>>
    /\ UNCHANGED <<tradeVars, instruments_cache, is_running, run, pause>>
    /\ UNCHANGED <<procVars, environ, config>>
    /\ UNCHANGED reqVars

\* predictor.predict_price(data)
PredictorPredictPrice ==
    /\ \E data \in HistoricalData, outcome \in OptionalOf(PredictedPrices) :
         op' = Call("predict_price", data,
                    Return(PredictPrice(is_trained, model, data, outcome)))
    /\ calls' = <<>>
    /\ UNCHANGED <<tradeVars, instruments_cache, runVars, pause>>
    /\ UNCHANGED <<procVars, unitVars>>
    /\ UNCHANGED reqVars

(***************************************************************************)
(* AlfaBroker._make_request, step by step: one HTTP attempt per pass       *)
(* through its try block, time.sleep(1) and the recursive call after a     *)
(* rate-limited answer.                                                    *)
(***************************************************************************)
\* response.status_code == 200
StatusOK == 200
\* response.status_code == 429
StatusRateLimited == 429
\* time.sleep(1)
RetryPause == 1

Methods == {"GET", "post", "PUT"}
Endpoints == {"/orders", "/instruments/search"}
Payloads == {"null", "json"}

Request(method, endpoint, data) ==
    [method |-> method, endpoint |-> endpoint, data |-> data]

\* what the broker may answer to one HTTP attempt; fault is an exception
\* raised by requests (connection error, timeout, body that is not JSON)
HttpAnswers ==
    {[fault |-> TRUE, status |-> 0, body |-> ""],
     [fault |-> FALSE, status |-> StatusOK, body |-> "json"],
     [fault |-> FALSE, status |-> StatusOK, body |-> "{}"],
     [fault |-> FALSE, status |-> StatusRateLimited, body |-> ""],
     [fault |-> FALSE, status |-> 500, body |-> ""]}

\* method.upper()
MethodUpper(method) ==
    CASE method = "get" -> "GET"
      [] method = "post" -> "POST"
      [] method = "put" -> "PUT"
      [] OTHER -> method

\* the methods _make_request issues; any other returns None at once
Supported(method) == MethodUpper(method) \in {"GET", "POST"}

\* requests.get(url, params=data) / requests.post(url, json=data)
HttpCall(args) == Request(MethodUpper(args.method), args.endpoint, args.data)

\* RateLimited that also takes every error status for a rate limit
RateLimitedOrError(answer) == ~answer.fault /\ answer.status # StatusOK

\* elif response.status_code == 429
RateLimited(answer) == ~answer.fault /\ answer.status = StatusRateLimited

\* RetryArgs that leaves data at its default
RetryArgsWithoutData(args) == Request(args.method, args.endpoint, "null")

\* the arguments of the recursive call: self._make_request(method, endpoint, data)
RetryArgs(args) == Request(args.method, args.endpoint, args.data)

\* what a pass returns for an answer that is not rate limited
Returned(answer) ==
    IF ~answer.fault /\ answer.status = StatusOK THEN Some(answer.body)
    ELSE None

Idle == [pc |-> "idle", call |-> Request("", "", ""),
         args |-> Request("", "", ""), result |-> None]

\* a caller enters _make_request(method, endpoint, data)
MakeRequest ==
    /\ rq.pc \in {"idle", "done"}
    /\ \E method \in Methods, endpoint \in Endpoints, data \in Payloads :
         rq' = [pc |-> IF Supported(method) THEN "send" ELSE "done",
                call |-> Request(method, endpoint, data),
                args |-> Request(method, endpoint, data),
                result |-> None]
    /\ http_log' = <<>>
    /\ answers' = <<>>
    /\ sleeps' = 0
    /\ UNCHANGED botVars

\* one pass through the try block: the HTTP call and the branch on its answer;
\* the broker stops answering 429 after MaxRateLimited of them
HttpAttempt ==
    /\ rq.pc = "send"
    /\ \E answer \in HttpAnswers :
         /\ answer.status = StatusRateLimited =>
                Cardinality({i \in 1..Len(answers) :
                    answers[i].status = StatusRateLimited}) < MaxRateLimited
         /\ http_log' = Append(http_log, HttpCall(rq.args))
         /\ answers' = Append(answers, answer)
         /\ rq' = IF RateLimited(answer)
                  THEN [rq EXCEPT !.pc = "sleep"]
                  ELSE [rq EXCEPT !.pc = "done", !.result = Returned(answer)]
    /\ UNCHANGED sleeps
    /\ UNCHANGED botVars

\* time.sleep(1); return self._make_request(method, endpoint, data)
RetryAfterPause ==
    /\ rq.pc = "sleep"
    /\ sleeps' = sleeps + RetryPause
    /\ rq' = [rq EXCEPT !.pc = "send", !.args = RetryArgs(rq.args)]
    /\ UNCHANGED <<http_log, answers>>
    /\ UNCHANGED botVars

\* one pass through the try block while the interpreter still has frames
\* for it; the broker may answer 429 every time
NestedAttempt ==
    /\ rq.pc = "send"
    /\ Len(answers) < RecursionLimit
    /\ \E answer \in HttpAnswers :
         /\ http_log' = Append(http_log, HttpCall(rq.args))
         /\ answers' = Append(answers, answer)
         /\ rq' = IF RateLimited(answer)
                  THEN [rq EXCEPT !.pc = "sleep"]
                  ELSE [rq EXCEPT !.pc = "done", !.result = Returned(answer)]
    /\ UNCHANGED sleeps
    /\ UNCHANGED botVars

\* RecursionLimitReached with a RecursionError that no handler catches
RecursionErrorUncaught ==
    /\ rq.pc = "send"
    /\ Len(answers) >= RecursionLimit
    /\ rq' = [rq EXCEPT !.pc = "raised"]
    /\ UNCHANGED <<http_log, answers, sleeps>>
    /\ UNCHANGED botVars

\* the nesting has used up the interpreter's frames: the next call inside
\* the try block raises RecursionError, an Exception, which 'except
\* Exception' catches; None is returned through every nested call and no
\* further HTTP attempt is made
RecursionLimitReached ==
    /\ rq.pc = "send"
    /\ Len(answers) >= RecursionLimit
    /\ rq' = [rq EXCEPT !.pc = "done", !.result = None]
    /\ UNCHANGED <<http_log, answers, sleeps>>
    /\ UNCHANGED botVars


\* the bot and its broker client as their constructors leave them
Constructed ==
    /\ positions = EmptyDict
    /\ trade_history = <<>>
    /\ instruments_cache = EmptyDict
    /\ cycle = NoCycle
    /\ confirmed = 0
    /\ calls = <<>>
    /\ inputs = NoInputs
    /\ op = NoOp
    /\ pause = 0
    /\ final_stats = <<>>
    /\ exit_code = None
    /\ rq = Idle
    /\ http_log = <<>>
    /\ answers = <<>>
    /\ sleeps = 0

\* run() has trained the model and stands at the head of its loop
InLoop ==
    /\ is_running = TRUE
    /\ is_trained = TRUE
    /\ model = "fitted"
    /\ succeeded = TRUE
    /\ run = "Running"
    /\ sigint = "none"

Init ==
    /\ \E env \in RunEnvironments : Main(env)
    /\ broker_held = None
    /\ Constructed
    /\ InLoop

Next == SimLoopPass \/ AlfaLoopPass

Spec == Init /\ [][Next]_vars

\* AlfaTradingBot on an account that nobody else trades and that holds no
\* shares at the start: every portfolio answer lists what the bot's own
\* confirmed orders left there
OwnAccountInit ==
    /\ Main(NoOverrides)
    /\ broker_held = Some(0)
    /\ Constructed
    /\ InLoop

OwnAccountSpec == OwnAccountInit /\ [][AlfaLoopPass]_vars

\* run() from its start: main() has constructed the bot
RunInit ==
    /\ \E env \in RunEnvironments : Main(env)
    /\ broker_held = None
    /\ Constructed
    /\ is_running = FALSE
    /\ is_trained = FALSE
    /\ model = "None"
    /\ succeeded = FALSE
    /\ run = "NotStarted"
    /\ sigint \in IF bot = "AlfaTradingBot" THEN {"none", "order"}
                   ELSE {"none"}

RunNext ==
    \/ SimStart
    \/ AlfaStart
    \/ SimTrain
    \/ AlfaTrain
    \/ SimLoopPass
    \/ AlfaLoopPass
    \/ Interrupt
    \/ InterruptStartup
    \/ InterruptRecovery
    \/ MainExit

RunSpec == RunInit /\ [][RunNext]_vars

\* Config and PricePredictor on their own, before main() runs the bot
UnitInit ==
    /\ \E env \in UnitEnvironments : Main(env)
    /\ broker_held = None
    /\ Constructed
    /\ is_running = FALSE
    /\ is_trained = FALSE
    /\ model = "None"
    /\ succeeded = FALSE
    /\ run = "NotStarted"
    /\ sigint = "none"

UnitNext ==
    \/ NewConfig
    \/ ConfigSet
    \/ NewPredictor
    \/ PredictorTrainModel
    \/ PredictorPredictPrice

UnitSpec == UnitInit /\ [][UnitNext]_vars

\* the broker client's operations on their own
BrokerInit == Init /\ bot = "AlfaTradingBot"

BrokerNext ==
    \/ BrokerGetInstrumentByTicker
    \/ BrokerGetCurrentPrice
    \/ BrokerGetCandles
    \/ BrokerPlaceMarketOrder
    \/ BrokerGetBalance
    \/ BrokerCancelOrder

BrokerSpec == BrokerInit /\ [][BrokerNext]_vars

\* the request layer on its own
RequestInit == Init /\ bot = "AlfaTradingBot"

RequestNext == MakeRequest \/ HttpAttempt \/ RetryAfterPause

RequestSpec == RequestInit /\ [][RequestNext]_vars

\* _make_request with a broker free to answer 429 to every attempt.  The
\* code runs in one thread and every step of a call ends by itself once the
\* HTTP attempt is answered or fails, hence weak fairness of the steps of a
\* call; when a caller makes a request is left open.
RetryNext ==
    \/ MakeRequest
    \/ NestedAttempt
    \/ RetryAfterPause
    \/ RecursionLimitReached

RetrySpec ==
    /\ RequestInit
    /\ [][RetryNext]_vars
    /\ WF_vars(NestedAttempt)
    /\ WF_vars(RetryAfterPause)
    /\ WF_vars(RecursionLimitReached)

(***************************************************************************)
(* Properties.  A step of Spec is one whole trading cycle, and cycle'      *)
(* describes it: the prices it decided on, the position and balance it     *)
(* read, the order it sent and what the broker client returned.            *)
(***************************************************************************)
Held == Get(positions, symbol, 0)

Sent(c, direction) == c.order # None /\ Val(c.order).direction = direction

LastTrade(history) == history[Len(history)]

\* floor(a / b) for a >= 0, b > 0
Floor(a, b) == CHOOSE q \in 0..a : q * b <= a /\ a < (q + 1) * b

\* C1: in AlfaTradingBot a cycle appends a trade exactly when the broker
\* client returned a confirmation for the order it placed, and then exactly
\* one; a rejected attempt appends nothing; so the length of trade_history
\* always equals the number of confirmed orders.
C1_TradeIffConfirmed ==
    [][bot = "AlfaTradingBot" =>
         /\ Len(trade_history') = confirmed'
         /\ cycle'.result = "confirmed" =>
                /\ Len(trade_history') = Len(trade_history) + 1
                /\ SubSeq(trade_history', 1, Len(trade_history)) = trade_history
         /\ cycle'.result # "confirmed" => trade_history' = trade_history]_vars

\* two confirmed orders with a rejected attempt as the latest cycle
C1_Witness ==
    /\ bot = "AlfaTradingBot"
    /\ confirmed = 2
    /\ Len(trade_history) = 2
    /\ cycle.result = "rejected"

\* C2: whenever a cycle executes a BUY (TradingBot) or submits one to the
\* broker (AlfaTradingBot), the ledger's quantity for the symbol is 0 or
\* absent immediately before.
C2_BuyOnlyWhenLedgerFlat ==
    [][Sent(cycle', "BUY") => Held = 0]_vars

\* C3: after a confirmed BUY the ledger's quantity equals
\* floor(balance * max_position_size / current price) for the balance read
\* in that cycle, it costs no more than balance * max_position_size, and no
\* BUY is submitted for a quantity below 1.
C3_LedgerEqualsSizedQuantity ==
    [][Sent(cycle', "BUY") =>
         LET bal == Val(cycle'.bal_read)
             price == Val(cycle'.cur)
             q == Floor(bal * max_position_size, 10 * price)
         IN  /\ q >= 1
             /\ Val(cycle'.order).quantity = q
             /\ 10 * q * price <= bal * max_position_size
             /\ cycle'.result = "confirmed" => Get(positions', symbol, 0) = q]_vars

\* C4 as stated: a SELL order is for the entire quantity the ledger holds,
\* and after a confirmed SELL the ledger's quantity is exactly 0.
C4_SellsLedgerQuantity ==
    [][Sent(cycle', "SELL") =>
         /\ Val(cycle'.order).quantity = Held
         /\ cycle'.result = "confirmed" => Get(positions', symbol, 0) = 0]_vars

\* C4 amended: a SELL order is for the entire quantity the bot read as its
\* position in that cycle, which is the ledger's quantity in TradingBot and
\* the broker portfolio's quantity in AlfaTradingBot; after a confirmed SELL
\* the ledger's quantity is exactly 0.
C4_SellsEntireReadPosition ==
    [][Sent(cycle', "SELL") =>
         /\ Val(cycle'.order).quantity = Val(cycle'.pos_read)
         /\ bot = "TradingBot" => Val(cycle'.pos_read) = Held
         /\ cycle'.result = "confirmed" =>
                /\ symbol \in DOMAIN positions'
                /\ positions'[symbol] = 0]_vars

\* holding 10, current price 90, predicted 80: SELL 10, position 0
C4_Witness ==
    /\ cycle.branch = "SELL"
    /\ cycle.cur = Some(90)
    /\ cycle.pred = Some(80)
    /\ cycle.order # None
    /\ Val(cycle.order).quantity = 10
    /\ cycle.result = "confirmed"
    /\ Held = 0
    /\ Len(trade_history) >= 2

\* C5: a cycle whose current price is positive and whose expected change
\* lies strictly between -0.02 and +0.02 sends no order and leaves
\* positions, trade_history and balance unchanged.
C5_HoldChangesNothing ==
    [][(/\ cycle'.cur # None
        /\ cycle'.pred # None
        /\ Val(cycle'.cur) > 0
        /\ (Val(cycle'.pred) - Val(cycle'.cur)) * 100 < 2 * Val(cycle'.cur)
        /\ (Val(cycle'.pred) - Val(cycle'.cur)) * 100 > -2 * Val(cycle'.cur))
       => /\ cycle'.order = None
          /\ cycle'.result = "none"
          /\ positions' = positions
          /\ trade_history' = trade_history
          /\ balance' = balance
          /\ confirmed' = confirmed]_vars

\* current price 100, predicted 101, while a position is held
C5_Witness ==
    /\ cycle.branch = "HOLD"
    /\ cycle.cur = Some(100)
    /\ cycle.pred = Some(101)
    /\ Held > 0

C7_TradeMatchesOrder ==
    [][(bot = "AlfaTradingBot" /\ Len(trade_history') > Len(trade_history)) =>
         LET trade == LastTrade(trade_history')
         IN  /\ cycle'.order # None
             /\ trade.action = Val(cycle'.order).direction
             /\ trade.quantity = Val(cycle'.order).quantity
             /\ trade.symbol = symbol
             /\ trade.symbol \in DOMAIN instruments_cache'
             /\ Val(cycle'.order).figi = instruments_cache'[trade.symbol].figi
             /\ trade.price = Val(cycle'.cur)]_vars

\* a recorded BUY of 11 at 90 followed by a recorded SELL at 100
C7_Witness ==
    /\ bot = "AlfaTradingBot"
    /\ Len(trade_history) = 2
    /\ trade_history[1].action = "BUY"
    /\ trade_history[1].quantity = 11
    /\ trade_history[1].price = 90
    /\ trade_history[2].action = "SELL"
    /\ trade_history[2].price = 100
    /\ cycle.result = "confirmed"

\* C8 as stated: the ledger's quantity is an integer >= 0 in every state and
\* a SELL order is issued only when the ledger's quantity is > 0.
C8_SellOnlyWhenLedgerHolds ==
    [][/\ Get(positions', symbol, 0) \in Nat
       /\ Sent(cycle', "SELL") => Held > 0]_vars

\* C8 amended: the ledger's quantity is an integer >= 0 in every state, and
\* a SELL order is issued only when the quantity the bot read as its
\* position is > 0: the ledger's in TradingBot, the broker portfolio's in
\* AlfaTradingBot.
C8_SellOnlyWhenReadPositionHolds ==
    [][/\ Get(positions', symbol, 0) \in Nat
       /\ Sent(cycle', "SELL") =>
              /\ Val(cycle'.pos_read) > 0
              /\ bot = "TradingBot" => Held > 0]_vars

\* AlfaTradingBot sold what the broker reported while its ledger was empty
C8_Witness ==
    /\ bot = "AlfaTradingBot"
    /\ Sent(cycle, "SELL")
    /\ cycle.result = "confirmed"
    /\ Len(trade_history) = 1
    /\ Held = 0

\* C9: in TradingBot the balance is never negative.
C9_BalanceNonNegative ==
    bot = "TradingBot" => balance >= 0

\* a purchase that would overdraw the balance was refused
C9_Witness ==
    /\ bot = "TradingBot"
    /\ cycle.branch = "BUY"
    /\ cycle.result = "none"
    /\ cycle.pos_read = Some(0)
    /\ balance > 0
    /\ Quantity(balance, Val(cycle.cur)) * Val(cycle.cur) > balance

\* the answers so far that carry status 429
Limited == {i \in 1..Len(answers) : ~answers[i].fault /\ answers[i].status = 429}

Errors ==
    {i \in 1..Len(answers) :
        answers[i].fault \/ answers[i].status \notin {200, 429}}

\* C11: in _make_request an answer whose status is neither 200 nor 429, or
\* a transport fault, ends the call: it is the last answer, exactly one HTTP
\* attempt was made for it and none follows, no pause follows, and the call
\* has returned None to its caller.
C11_ErrorSurfacesWithoutRetry ==
    \A i \in Errors :
        /\ i = Len(answers)
        /\ Len(http_log) = i
        /\ sleeps = i - 1
        /\ rq.pc = "done"
        /\ rq.result = None
        /\ ~ENABLED HttpAttempt
        /\ ~ENABLED RetryAfterPause

\* a transport fault on the attempt after the last rate-limited answer
C11_Witness ==
    /\ rq.pc = "done"
    /\ Len(answers) = MaxRateLimited + 1
    /\ answers[Len(answers)].fault
    /\ Len(http_log) = MaxRateLimited + 1
    /\ rq.result = None

\* the positions in a search answer of the instruments whose ticker is
\* exactly t; a search that failed or came back empty has none
ExactMatches(search, t) ==
    IF search.kind = "body"
    THEN {k \in DOMAIN search.instruments : search.instruments[k].ticker = t}
    ELSE {}

Asked(endpoint) == \E i \in DOMAIN calls : calls[i] = endpoint

\* C12: every entry of the instrument cache stays as it is; a call of an
\* operation for a cached ticker sends no search request, whatever the
\* broker would answer to one, and get_instrument_by_ticker returns the
\* cached instrument; a lookup that returns an instrument leaves it cached.
C12_CachedInstrumentIsKept ==
    [][/\ \A t \in DOMAIN instruments_cache :
             /\ t \in DOMAIN instruments_cache'
             /\ instruments_cache'[t] = instruments_cache[t]
       /\ op'.ticker \in DOMAIN instruments_cache =>
             /\ ~Asked(SearchEndpoint)'
             /\ op'.name = "get_instrument_by_ticker" =>
                    /\ op'.result = Return(Some(instruments_cache[op'.ticker]))
                    /\ calls' = <<>>
       /\ (op'.name = "get_instrument_by_ticker"
             /\ op'.result.value # None) =>
             /\ op'.ticker \in DOMAIN instruments_cache'
             /\ instruments_cache'[op'.ticker] = Val(op'.result.value)]_vars

\* SBER is cached without a figi, the broker would now answer a search with
\* an instrument that has one, and the lookup returns the cached entry
C12_Witness ==
    /\ op.name = "get_instrument_by_ticker"
    /\ op.ticker = "SBER"
    /\ op.search.kind = "body"
    /\ op.search.instruments =
           <<Instrument("SBER", "F1"), Instrument("SBER", "F9")>>
    /\ op.result = Return(Some(Instrument("SBER", "")))
    /\ calls = <<>>
    /\ instruments_cache["SBER"] = Instrument("SBER", "")

\* C13: on a cache miss get_instrument_by_ticker(t) sends one search and
\* returns the first instrument of the answer whose ticker is exactly t,
\* caching it under t; it returns None and caches nothing when the search
\* failed, was empty or has no exact match; no instrument is ever cached
\* under a ticker that is not its own.
C13_FirstExactMatchOrNone ==
    [][/\ (op'.name = "get_instrument_by_ticker"
             /\ op'.ticker \notin DOMAIN instruments_cache) =>
             LET t == op'.ticker
                 M == ExactMatches(op'.search, t)
             IN  /\ calls' = <<SearchEndpoint>>
                 /\ M = {} =>
                        /\ op'.result = Return(None)
                        /\ instruments_cache' = instruments_cache
                 /\ M # {} =>
                        LET first == CHOOSE i \in M : \A j \in M : i <= j
                            instrument == op'.search.instruments[first]
                        IN  /\ op'.result = Return(Some(instrument))
                            /\ instrument.ticker = t
                            /\ instruments_cache' =
                                   Put(instruments_cache, t, instrument)
       /\ \A t \in DOMAIN instruments_cache' :
             instruments_cache'[t].ticker = t]_vars

\* the search lists SBERP before SBER, and the lookup of SBER returns SBER
C13_Witness ==
    /\ op.name = "get_instrument_by_ticker"
    /\ op.ticker = "SBER"
    /\ op.search.kind = "body"
    /\ op.search.instruments =
           <<Instrument("SBERP", "F2"), Instrument("SBER", "F1")>>
    /\ calls = <<SearchEndpoint>>
    /\ op.result = Return(Some(Instrument("SBER", "F1")))
    /\ "SBERP" \notin DOMAIN instruments_cache

\* the instrument of a call is unresolved: not cached, and the search has
\* no exact match for it
Unresolved(cache, o) ==
    o.ticker \notin DOMAIN cache /\ ExactMatches(o.search, o.ticker) = {}

\* C14: get_current_price returns None, and raises nothing, when the
\* instrument is unresolved, when the last-price request failed and when
\* its answer has no price entry; for an unresolved instrument the search
\* is the only request sent.
C14_NoPriceIsNone ==
    [][op'.name = "get_current_price" =>
         LET unresolved == Unresolved(instruments_cache, op')
             failed == op'.response.kind = "failed"
             no_entries ==
                 \/ op'.response.kind = "empty"
                 \/ op'.response.kind = "body"
                        /\ Len(op'.response.last_prices) = 0
         IN  /\ (unresolved \/ failed \/ no_entries) =>
                    /\ ~op'.result.raised
                    /\ op'.result.value = None
             /\ unresolved => calls' = <<SearchEndpoint>>]_vars

\* a cached instrument, a last-price answer without entries, and None
C14_Witness ==
    /\ op.name = "get_current_price"
    /\ calls = <<LastPricesEndpoint>>
    /\ op.response.kind = "body"
    /\ Len(op.response.last_prices) = 0
    /\ op.result = Return(None)

\* C15 as stated: get_candles returns an empty sequence, not None, whenever
\* the instrument is resolved and the candle request is answered with
\* success and zero candles, and it returns None only when the instrument
\* (its figi) is unresolved or the request failed.
C15_NoneOnlyWhenUnresolvedOrFailed ==
    [][op'.name = "get_candles" =>
         LET resolved ==
                 /\ op'.ticker \in DOMAIN instruments_cache'
                 /\ instruments_cache'[op'.ticker].figi # ""
         IN  /\ (resolved /\ op'.response.kind \in {"empty", "body"}
                   /\ Len(op'.response.candles) = 0) =>
                    /\ op'.result.value # None
                    /\ Val(op'.result.value) = <<>>
             /\ op'.result.value = None =>
                    (~resolved \/ op'.response.kind = "failed")]_vars

\* C16: place_market_order transmits the absolute value of the quantity
\* and the upper-cased direction, with the figi of the instrument, whenever
\* the instrument has one; for an unresolved instrument it returns None and
\* the search is the only request sent; when the order request fails it
\* returns None.
C16_OrderCarriesAbsQuantity ==
    [][op'.name = "place_market_order" =>
         LET unresolved == Unresolved(instruments_cache, op')
         IN  /\ unresolved =>
                    /\ op'.result = Return(None)
                    /\ op'.sent = None
                    /\ calls' = <<SearchEndpoint>>
             /\ (~unresolved /\ instruments_cache'[op'.ticker].figi # "") =>
                    /\ op'.sent # None
                    /\ calls'[Len(calls')] = OrdersEndpoint
             /\ op'.sent # None =>
                    /\ Val(op'.sent).quantity >= 0
                    /\ Val(op'.sent).quantity \in {op'.quantity, -op'.quantity}
                    /\ Val(op'.sent).direction =
                           (IF op'.direction \in {"buy", "BUY"} THEN "BUY"
                            ELSE "SELL")
                    /\ Val(op'.sent).figi = instruments_cache'[op'.ticker].figi
             /\ op'.response.kind = "failed" => op'.result = Return(None)]_vars

\* place_market_order("SBER", -3, "buy") transmitted BUY 3 and was confirmed
C16_Witness ==
    /\ op.name = "place_market_order"
    /\ op.ticker = "SBER"
    /\ op.quantity = -3
    /\ op.direction = "buy"
    /\ op.sent = Some(Order("BUY", 3, "F1"))
    /\ op.result.value # None

\* C17: a cycle of AlfaTradingBot whose symbol is not cached and whose
\* instrument search has no exact match gets None from get_current_price
\* and returns at once: the search is its only call (no candles, no
\* predictor, no decision, no order), no trade is recorded, positions are
\* unchanged, and the symbol is still not cached for the next cycle.
C17_UnknownTickerSkipsCycle ==
    [][(bot = "AlfaTradingBot"
          /\ symbol \notin DOMAIN instruments_cache
          /\ ExactMatches(op'.search, symbol) = {}) =>
         /\ op'.name = "get_current_price"
         /\ op'.result = Return(None)
         /\ calls' = <<SearchEndpoint>>
         /\ cycle' = Skipped
         /\ cycle'.order = None
         /\ trade_history' = trade_history
         /\ positions' = positions
         /\ confirmed' = confirmed
         /\ symbol \notin DOMAIN instruments_cache']_vars

\* the search for SBER found only "sber", and the cycle was skipped
C17_Witness ==
    /\ bot = "AlfaTradingBot"
    /\ op.name = "get_current_price"
    /\ op.search.kind = "body"
    /\ op.search.instruments = <<Instrument("sber", "F3")>>
    /\ calls = <<SearchEndpoint>>
    /\ cycle = Skipped
    /\ instruments_cache = EmptyDict

\* C18: run() stands in its loop only with is_running set and the model
\* trained; a trading cycle has been executed only after training
\* succeeded; and when run() has returned without entering the loop (the
\* connection check or the training failed) no cycle was executed, none
\* can be, and run() is not in its loop.
C18_LoopOnlyAfterTraining ==
    /\ run = "Running" => (is_running /\ is_trained)
    /\ cycle # NoCycle =>
         (is_trained /\ run \in {"Running", "Stopped", "Raised", "Interrupted"})
    /\ ~is_trained => run \in {"NotStarted", "TrainingModel", "Returned",
                                "Raised", "Interrupted"}
    /\ run = "Returned" =>
         /\ ~is_trained
         /\ cycle = NoCycle
         /\ trade_history = <<>>
         /\ ~ENABLED SimLoopPass
         /\ ~ENABLED AlfaLoopPass

\* AlfaTradingBot's training had data and the fit failed: run() returned
C18_Witness ==
    /\ bot = "AlfaTradingBot"
    /\ run = "Returned"
    /\ ~is_trained
    /\ Len(calls) >= 1
    /\ calls[Len(calls)] = "predictor.train_model"
    /\ cycle = NoCycle

\* C19: a cycle that got no current price, or no recent bars (None or an
\* empty set of them), calls neither the predictor nor the decision, sends
\* no order and leaves positions, trade_history and balance unchanged; the
\* loop goes on after the sleep of 60.
C19_MissingDataSkipsCycle ==
    [][(inputs'.current_price = "None" \/ inputs'.recent \in {"None", "empty"}) =>
         /\ \A i \in DOMAIN calls' :
                calls'[i] \notin {"predictor.predict_price",
                                  "_make_trading_decision"}
         /\ cycle'.branch = "SKIP"
         /\ cycle'.order = None
         /\ positions' = positions
         /\ trade_history' = trade_history
         /\ balance' = balance
         /\ confirmed' = confirmed
         /\ pause' = 60
         /\ is_running'
         /\ run' = "Running"]_vars

\* AlfaTradingBot holds shares and the candle request is answered with an
\* empty list
C19_Witness ==
    /\ bot = "AlfaTradingBot"
    /\ inputs.current_price = "value"
    /\ inputs.recent = "empty"
    /\ cycle = Skipped
    /\ Held > 0
    /\ pause = 60

\* C20: a cycle whose prediction is None makes no decision, and a cycle
\* whose BUY branch gets None for the balance (get_balance returned None)
\* sends no order; both leave positions and trade_history unchanged.
C20_NoPartialDecision ==
    [][/\ inputs'.predicted = "None" =>
             /\ \A i \in DOMAIN calls' : calls'[i] # "_make_trading_decision"
             /\ cycle'.branch = "SKIP"
             /\ cycle'.order = None
             /\ positions' = positions
             /\ trade_history' = trade_history
             /\ confirmed' = confirmed
       /\ (cycle'.branch = "BUY" /\ cycle'.pos_read # None
             /\ Val(cycle'.pos_read) <= 0 /\ cycle'.bal_read = None
             /\ ~Raised(cycle')) =>
             /\ cycle'.order = None
             /\ cycle'.result = "none"
             /\ positions' = positions
             /\ trade_history' = trade_history
             /\ confirmed' = confirmed]_vars

\* AlfaTradingBot holds shares and the predictor returns None
C20_Witness ==
    /\ bot = "AlfaTradingBot"
    /\ inputs.predicted = "None"
    /\ cycle = Skipped
    /\ Held > 0

\* a pass of the loop in which an exception left _trading_cycle
ErrorPass == Raised(cycle') /\ (SimLoopPass \/ AlfaLoopPass)

\* a KeyboardInterrupt was acted on: stop(), which only the handler of
\* KeyboardInterrupt calls, has run once more, or the interrupt has left run()
StopSignal ==
    \/ Len(final_stats') = Len(final_stats) + 1
    \/ run' = "Interrupted"

\* C21: an exception raised inside a trading cycle is caught by run(): the
\* pass ends with the pause of 30, run() stays in its loop with is_running
\* set and the process goes on, whatever the cycle had read; while run() is
\* in its loop a further pass can be taken (as long as the bound on trades
\* admits one); and run() leaves its loop only on a KeyboardInterrupt.
C21_ExceptionIsSurvived ==
    /\ [][ErrorPass =>
            /\ pause' = ErrorPause
            /\ run' = "Running"
            /\ is_running'
            /\ exit_code' = None
            /\ final_stats' = final_stats]_vars
    /\ [](run = "Running" =>
            /\ is_running
            /\ Len(trade_history) < MaxTrades =>
                   ENABLED (SimLoopPass \/ AlfaLoopPass))
    /\ [][(run = "Running" /\ run' # "Running") => StopSignal]_vars

\* AlfaTradingBot has recorded a trade, and the cycle after it ended in an
\* exception of its BUY signal: run() is still in its loop
C21_Witness ==
    /\ bot = "AlfaTradingBot"
    /\ run = "Running"
    /\ is_running
    /\ cycle.branch = "BUY"
    /\ cycle.result = "raised"
    /\ pause = ErrorPause
    /\ Len(trade_history) >= 1

\* stop() has been called
Stopped == final_stats # <<>>

\* C22: stop() sets is_running to False and run() ends as Stopped; the
\* final summary is emitted exactly once and in full, for the trades
\* recorded; and after stop() no cycle runs, no order is sent and the ledger,
\* the balance and the trade history no longer change.
C22_StopIsTerminalWithSummary ==
    /\ [](Stopped =>
            /\ ~is_running
            /\ run = "Stopped"
            /\ Len(final_stats) = 1
            /\ final_stats[1].finished
            /\ final_stats[1].trades = Len(trade_history)
            /\ ~ENABLED (SimLoopPass \/ AlfaLoopPass))
    /\ [][Stopped =>
            UNCHANGED <<positions, balance, trade_history, cycle, confirmed,
                        final_stats>>]_vars

\* C23: a KeyboardInterrupt that arrives during run() always ends in an
\* orderly stop: stop() has run, the final summary was emitted in full and
\* run() returned; and it leaves no cycle half-executed, every order that
\* AlfaTradingBot had confirmed is recorded in trade_history.
C23_InterruptStopsInOrder ==
    (run \in {"Stopped", "Interrupted"} \/ Stopped) =>
        /\ run = "Stopped"
        /\ ~is_running
        /\ Len(final_stats) = 1
        /\ final_stats[1].finished
        /\ bot = "AlfaTradingBot" => confirmed = Len(trade_history)

\* run() ended before its loop: the connection check or the training failed
StartupFailed == run = "Returned" \/ (run = "Raised" /\ ~Stopped)

\* C24: when the process ends after a startup failure its exit code is not
\* 0; it ends in no other way than after an interruption, and not while
\* run() is in its loop.
C24_StartupFailureExitsNonZero ==
    /\ (exit_code # None /\ StartupFailed) => Val(exit_code) # 0
    /\ (exit_code # None /\ ~StartupFailed) => Stopped
    /\ run = "Running" => exit_code = None

\* C25: every step of run(), the passes of the loop and stop() included,
\* leaves trade_history as it was or appends one trade to it: the history
\* before the step is a prefix of the history after it.
C25_HistoryIsAppendOnly ==
    [][\/ trade_history' = trade_history
       \/ /\ Len(trade_history') = Len(trade_history) + 1
          /\ SubSeq(trade_history', 1, Len(trade_history)) = trade_history]_vars

\* stop() after a BUY and a SELL were recorded, with a cycle that was
\* skipped in between
C25_Witness ==
    /\ run = "Stopped"
    /\ Len(trade_history) = 2
    /\ trade_history[1].action = "BUY"
    /\ trade_history[2].action = "SELL"
    /\ final_stats[1].trades = 2

\* C26: no operation of the broker client that a trading cycle calls lets an
\* exception out: get_current_price returns to the cycle, and so does
\* get_balance in the BUY signal.
C26_NoExceptionFromBroker ==
    /\ ~op.result.raised
    /\ cycle.result # "raised"

\* the positions of type currency and ticker RUB in the answer to the
\* latest operation's request
RubPositions ==
    IF Truthy(op.response)
    THEN {i \in DOMAIN op.response.positions :
             /\ op.response.positions[i].instrument_type = "currency"
             /\ op.response.positions[i].ticker = "RUB"}
    ELSE {}

\* C27: get_balance asks for the portfolio and returns None when the
\* request failed, came back empty or lists no position of type currency
\* and ticker RUB, and only then; otherwise it returns the balance of the
\* first such position (0 when the position carries none), given that
\* balance is a number.
C27_BalanceOfRubPosition ==
    op.name = "get_balance" =>
        /\ calls = <<PortfolioEndpoint>>
        /\ RubPositions = {} => op.result = Return(None)
        /\ op.result = Return(None) => RubPositions = {}
        /\ RubPositions # {} =>
              LET position == op.response.positions[FirstIndex(RubPositions)]
              IN  /\ position.kind = "number" =>
                         op.result = Return(Some(position.balance))
                  /\ position.kind = "absent" => op.result = Return(Some(0))

\* two rouble positions with different balances: the first one's is returned
C27_Witness ==
    /\ op.name = "get_balance"
    /\ Cardinality(RubPositions) = 2
    /\ op.response.positions[1].balance # op.response.positions[2].balance
    /\ op.result = Return(Some(op.response.positions[1].balance))

\* C28: a Config constructed with no variable set in the environment
\* returns 10000.0 for get('INITIAL_BALANCE') and 'AAPL' for
\* get('DEFAULT_SYMBOL').
C28_DefaultsAsTested ==
    (op.name = "Config" /\ environ = NoOverrides) =>
        /\ ConfigGet(config, "INITIAL_BALANCE") = Some(10000)
        /\ ConfigGet(config, "DEFAULT_SYMBOL") = Some("AAPL")

\* C29: a PricePredictor just constructed is not trained; is_trained turns
\* True only in a call of train_model that returns True; and as long as no
\* call of train_model has returned True is_trained is False and every
\* call of predict_price returns None.
C29_UntrainedPredictsNothing ==
    /\ [](op.name = "PricePredictor" => ~is_trained)
    /\ [][(~is_trained /\ is_trained') =>
            /\ op'.name = "train_model"
            /\ op'.result = Return(Some(TRUE))]_vars
    /\ [](~succeeded =>
            /\ ~is_trained
            /\ op.name = "predict_price" => op.result = Return(None))

\* predict_price is given bars after a training whose fit failed
C29_Witness ==
    /\ op.name = "predict_price"
    /\ op.response.kind = "bars"
    /\ op.result = Return(None)
    /\ ~succeeded
    /\ model = "unfitted"

\* a call of _make_request with a supported method has returned
CallReturned == rq.pc = "done" /\ Supported(rq.call.method)

\* C30 as stated: _make_request returns once an answer is not rate-limited
\* or a transport fault occurs, and while the broker answers rate-limited
\* to every attempt it never returns; so a call that has returned was given
\* an answer that is not rate-limited.
C30_RateLimitedForeverBlocks ==
    CallReturned => (Len(answers) >= 1 /\ Len(answers) \notin Limited)

\* C30: with every HTTP attempt answered or failing, every call of
\* _make_request eventually returns to its caller: with the outcome of the
\* first answer that is not rate-limited, or, when the broker answers
\* rate-limited to every attempt, with None after as many attempts and
\* pauses as the interpreter's recursion limit allows; until then no other
\* step of the thread is taken.
C30_RetryEventuallyReturns ==
    /\ (rq.pc \in {"send", "sleep"}) ~> (rq.pc = "done")
    /\ [](CallReturned =>
            \/ Len(answers) >= 1 /\ Len(answers) \notin Limited
            \/ /\ Limited = 1..RecursionLimit
               /\ Len(answers) = RecursionLimit
               /\ sleeps = RecursionLimit
               /\ rq.result = None)
    /\ [](rq.pc \in {"send", "sleep"} => Limited = 1..Len(answers))
    /\ [][rq.pc \in {"send", "sleep"} => UNCHANGED botVars]_vars

\* the broker answered 429 to every attempt and the call has returned None
C30_Witness ==
    /\ CallReturned
    /\ Len(http_log) = RecursionLimit
    /\ Limited = 1..RecursionLimit
    /\ sleeps = RecursionLimit
    /\ rq.result = None

\* the latest cycle went as far as calling _make_trading_decision
DecisionCalled ==
    calls # <<>> /\ calls[Len(calls)] = "_make_trading_decision"

\* C31: every call of _make_trading_decision takes one of its three
\* branches: BUY exactly when the expected change is above the threshold,
\* SELL exactly when it is below minus the threshold, HOLD otherwise, so also
\* when it equals the threshold; and a cycle places at most one order, of the
\* direction of its branch.
C31_ExactlyOneBranch ==
    DecisionCalled =>
        LET change == (Val(cycle.pred) - Val(cycle.cur)) * 100
            limit == prediction_threshold * Val(cycle.cur)
        IN  /\ cycle.branch \in {"BUY", "SELL", "HOLD"}
            /\ cycle.branch = "BUY" <=> change > limit
            /\ cycle.branch = "SELL" <=> change < -limit
            /\ cycle.order # None => Val(cycle.order).direction = cycle.branch
            /\ cycle.branch = "HOLD" => cycle.order = None

\* C33: a price that get_current_price returns is greater than 0, and no
\* trading decision is asked for a current price of 0.
C33_PriceIsPositive ==
    /\ (op.name = "get_current_price" /\ ~op.result.raised
            /\ op.result.value # None) => Val(op.result.value) > 0
    /\ DecisionCalled => Val(cycle.cur) > 0

\* the quantities of the BUY trades recorded after the last SELL trade
RECURSIVE BoughtSinceSell(_)
BoughtSinceSell(history) ==
    IF history = <<>> THEN 0
    ELSE IF LastTrade(history).action = "SELL" THEN 0
    ELSE LastTrade(history).quantity
             + BoughtSinceSell(SubSeq(history, 1, Len(history) - 1))

\* C32: the ledger holds no ticker but the configured symbol, the quantity
\* it holds for the symbol (0 while there is no entry) is the sum of the
\* quantities of the BUY trades recorded after the last SELL trade, and the
\* ledger changes only in a step that appends one trade to the history.
C32_LedgerTracksHistory ==
    /\ [](DOMAIN positions \subseteq {symbol})
    /\ [](Held = BoughtSinceSell(trade_history))
    /\ [][positions' # positions =>
            /\ Len(trade_history') = Len(trade_history) + 1
            /\ SubSeq(trade_history', 1, Len(trade_history)) = trade_history
            /\ cycle'.result = "confirmed"]_vars

\* AlfaTradingBot has recorded two BUY trades in a row and holds both
C32_Witness ==
    /\ bot = "AlfaTradingBot"
    /\ Len(trade_history) = 2
    /\ trade_history[1].action = "BUY"
    /\ trade_history[2].action = "BUY"
    /\ Held = trade_history[1].quantity + trade_history[2].quantity
    /\ Held > trade_history[2].quantity

\* a step that is AlfaTradingBot._train_model and run()'s branch on it
TrainStep ==
    /\ bot = "AlfaTradingBot"
    /\ run = "TrainingModel"
    /\ run' \in {"Running", "Returned", "Raised"}

\* the positions in a call trace at which a call of that name stands
CallsOf(trace, name) == {i \in DOMAIN trace : trace[i] = name}

\* C34: _train_model of AlfaTradingBot asks the broker for candles first; it
\* asks the data provider exactly when get_candles returned None or an empty
\* list, and after the broker; the predictor is called at most once, on the
\* one data set chosen, and when that data set is None or empty _train_model
\* fails without a call of the predictor.
C34_FallbackIffNoCandles ==
    [][TrainStep =>
        LET candles == op'.result.value
            provider == CallsOf(calls', "data_provider.get_historical_data")
            training == CallsOf(calls', "predictor.train_model")
            broker == CallsOf(calls', SearchEndpoint)
                          \cup CallsOf(calls', CandlesEndpoint)
        IN  /\ op'.name = "get_candles"
            /\ calls' # <<>> /\ 1 \in broker
            /\ \A i \in provider \cup training : \A j \in broker : j < i
            /\ (provider # {}) <=> (candles = None \/ Val(candles) = <<>>)
            /\ Cardinality(provider) <= 1
            /\ Cardinality(training) <= 1
            /\ (training # {}) <=> (inputs'.recent = "bars")
            /\ \A i \in provider : \A j \in training : i < j
            /\ inputs'.recent \in {"None", "empty"} =>
                   /\ run' = "Returned"
                   /\ training = {}
                   /\ is_trained' = is_trained
                   /\ model' = model]_vars

\* the broker returned an empty list of candles and the model was trained
\* on the history of the data provider
C34_Witness ==
    /\ bot = "AlfaTradingBot"
    /\ run = "Running"
    /\ cycle = NoCycle
    /\ op.name = "get_candles"
    /\ op.result.value = Some(<<>>)
    /\ calls = <<SearchEndpoint, CandlesEndpoint,
                 "data_provider.get_historical_data", "predictor.train_model">>
    /\ is_trained

\* run() of AlfaTradingBot returned from its connection check
CheckFailed == bot = "AlfaTradingBot" /\ run = "Returned" /\ ~is_running

\* C35: in AlfaTradingBot run() comes to the training only from a
\* connection check in which the account request was answered, and to its
\* loop only from a training that succeeded; orders are placed only in the
\* loop.  When get_account_info fails run() returns with the account
\* request as its only request: is_running is False, the model is not
\* trained, and no price, candle or order request is made then or later.
C35_OrdersOnlyAfterCheckAndTraining ==
    /\ [][(bot = "AlfaTradingBot" /\ run # "TrainingModel"
               /\ run' = "TrainingModel") =>
            /\ run = "NotStarted"
            /\ calls' = <<AccountEndpoint, PortfolioEndpoint>>]_vars
    /\ [][(bot = "AlfaTradingBot" /\ run # "Running" /\ run' = "Running") =>
            /\ run = "TrainingModel"
            /\ CallsOf(calls', "predictor.train_model") # {}
            /\ is_trained' /\ succeeded']_vars
    /\ [][(bot = "AlfaTradingBot"
               /\ (cycle'.order # cycle.order \/ confirmed' # confirmed)) =>
            run = "Running" /\ succeeded]_vars
    /\ [][(bot = "AlfaTradingBot" /\ run = "NotStarted"
               /\ run' = "Returned") =>
            /\ calls' = <<AccountEndpoint>>
            /\ ~is_running']_vars
    /\ [](CheckFailed =>
            /\ ~is_trained
            /\ op = NoOp
            /\ cycle = NoCycle
            /\ confirmed = 0
            /\ trade_history = <<>>
            /\ ~ENABLED (AlfaTrain \/ AlfaLoopPass))

\* an order of AlfaTradingBot confirmed in the loop, after the check and
\* the training
C35_Witness ==
    /\ bot = "AlfaTradingBot"
    /\ run = "Running"
    /\ succeeded
    /\ cycle.order # None
    /\ cycle.result = "confirmed"
    /\ confirmed = 1

\* the latest operation's own request was answered with status 200: with a
\* body, or with an empty JSON object
Answered200 == op.response.kind \in {"empty", "body"}

\* C36: an operation whose request is answered with status 200 reports
\* success whatever the body: place_market_order returns a confirmation and
\* cancel_order returns True, also for an empty JSON object.
C36_Status200IsSuccess ==
    /\ (op.name = "place_market_order" /\ op.sent # None /\ Answered200) =>
           op.result.value # None
    /\ (op.name = "cancel_order" /\ Answered200) =>
           op.result.value = Some(TRUE)

\* C37: every entry of instruments_cache stands under the ticker of its
\* instrument; a lookup that returns None (the search failed, was empty or
\* had no exact match) leaves the cache as it was, with no entry for the
\* ticker, and every lookup of a ticker that has no entry sends the search
\* again.
C37_FailedLookupIsNotCached ==
    /\ [](\A t \in DOMAIN instruments_cache :
              instruments_cache[t].ticker = t)
    /\ [][(op'.name = "get_instrument_by_ticker"
               /\ op'.result.value = None) =>
            /\ instruments_cache' = instruments_cache
            /\ op'.ticker \notin DOMAIN instruments_cache'
            /\ ExactMatches(op'.search, op'.ticker) = {}]_vars
    /\ [][(op'.name = "get_instrument_by_ticker"
               /\ op'.ticker \notin DOMAIN instruments_cache) =>
            calls' = <<SearchEndpoint>>]_vars

\* a lookup of SBER whose search has no exact match, while SBERP is cached
C37_Witness ==
    /\ op.name = "get_instrument_by_ticker"
    /\ op.ticker = "SBER"
    /\ op.search.kind = "body"
    /\ op.search.instruments = <<Instrument("sber", "F3")>>
    /\ op.result = Return(None)
    /\ calls = <<SearchEndpoint>>
    /\ DOMAIN instruments_cache = {"SBERP"}

\* C38: a purchase or sale of TradingBot at price p leaves
\* balance + positions[symbol] * p as it was; a sale at the price of the
\* purchase recorded before it gives back what the purchase cost and leaves
\* position 0, so that after the first purchase and a sale at the same
\* price the balance is the initial balance again.
C38_TradePreservesTotalValue ==
    /\ [][(bot = "TradingBot" /\ cycle'.result = "confirmed") =>
            LET p == Val(cycle'.cur)
            IN  /\ balance' + Held' * p = balance + Held * p
                /\ (/\ cycle'.branch = "SELL"
                    /\ LastTrade(trade_history).action = "BUY"
                    /\ LastTrade(trade_history).price = p) =>
                       /\ balance' = balance + LastTrade(trade_history).amount
                       /\ Held' = 0]_vars
    /\ [](( /\ bot = "TradingBot"
            /\ Len(trade_history) = 2
            /\ trade_history[1].action = "BUY"
            /\ trade_history[2].action = "SELL"
            /\ trade_history[1].price = trade_history[2].price) =>
              /\ balance = config.INITIAL_BALANCE
              /\ Held = 0)

\* TradingBot bought 10 shares at 100 and sold them at 100
C38_Witness ==
    /\ bot = "TradingBot"
    /\ Len(trade_history) = 2
    /\ trade_history[1].action = "BUY"
    /\ trade_history[1].price = 100
    /\ trade_history[1].quantity = 10
    /\ trade_history[2].action = "SELL"
    /\ trade_history[2].price = 100
    /\ balance = 10000
    /\ Held = 0
====
